---------------------------- MODULE Spec2Model ----------------------------
(***************************************************************************)
(* KB Reflex: the investment-psychology classifier's serving half          *)
(* (src/predictor.py, class SentimentPredictor) as a state machine.        *)
(*                                                                         *)
(* Numbers.  A probability is a fixed-point integer in units of 1/PScale,  *)
(* so 0.9 is 9000 and 0.8999 is 8999.  The fitted network is opaque to the *)
(* program; it is modelled as a deterministic linear scorer (one weight    *)
(* per output class, multiplied by the number of attended word tokens),    *)
(* and softmax as the normalised exponential to base 2, truncated to the   *)
(* fixed-point grid.                                                       *)
(***************************************************************************)
EXTENDS Integers, Sequences, FiniteSets, TLC

VARIABLES
    disk,       \* the artifact directory: metadata file, tokenizer and weights
    pstate,     \* "Unloaded" | "Ready" | "Failed": outcome of SentimentPredictor(...)
    self,       \* the fields of the constructed instance
    initTrace,  \* the loading steps __init__ completed, in order
    op,         \* the last operation called
    arg,        \* its argument
    ret,        \* its return value
    raised,     \* the exception that left the call, or NoException
    tokCalls,   \* how often the last call invoked self.tokenizer
    fwdCalls,   \* how often the last call invoked self.model
    sessions,   \* per browser session: position of its page run and the handle it holds
    cache,      \* st.cache_resource's entry for load_sentiment_model and its lock
    ctorRuns,   \* how often SentimentPredictor(...) has been entered
    callers,    \* per concurrent caller: position, pending texts and locals of its call
    lastInputs, \* the tokenizer output produced most recently by any caller
    corpus,     \* the rows read from the CSV files
    tpc,        \* the position of the training script's main
    train,      \* the locals of main: cleaned rows, label mappings, staged model
    files,      \* the CSV files handed to load_and_combine_data
    sstate,     \* st.session_state of one browser session
    page        \* the page that session shows

(* the variables of the page, of the concurrent callers and of the trainer *)
appVars == <<sessions, cache, ctorRuns>>
concVars == <<callers, lastInputs>>
trainVars == <<corpus, tpc, train, files>>
uiVars == <<sstate, page>>

vars == <<disk, pstate, self, initTrace, op, arg, ret, raised, tokCalls, fwdCalls,
          sessions, cache, ctorRuns, callers, lastInputs, corpus, tpc, train,
          files, sstate, page>>

---------------------------------------------------------------------------
(* Bounds of the model *)

MaxLabels == 3      \* most entries of a metadata mapping, most model outputs
MaxTextLen == 2     \* longest memo text, in characters
MaxBatch == 2       \* longest list handed to predict_batch

(* fixed-point unit of a float probability: 1.0 is PScale *)
PScale == 10000

(* max_length=128 of the tokenizer call *)
MAX_LENGTH == 128

---------------------------------------------------------------------------
(* Values *)

NoException == "none"
NoValue == "no value"

(* String literals of the source are written as English glosses:           *)
(*   predictor.py:71-77  the seven pattern names  "fear" "chase-buying"    *)
(*       "overconfidence" "loss-aversion" "confirmation-bias" "herd" "calm" *)
(*   predictor.py:112 "unanalyzable"   predictor.py:166 "error"            *)
(*   predictor.py:114,168 "none"                                           *)
(*   predictor.py:87-93 "very high" "high" "medium" "low"                  *)
(* label strings of an artifact: "fear" and "calm" have an entry in        *)
(* pattern_descriptions, "wait-and-see" has none                           *)
Labels == {"fear", "calm", "wait-and-see"}

(* the labels in sorted order *)
LabelOrder == <<"calm", "fear", "wait-and-see">>

WS == " "
LoneSurrogate == "\\ud800"
Chars == {WS, "a"}

Digits == <<"0", "1", "2", "3", "4", "5", "6", "7", "8", "9">>

(* str(i) for a small non-negative int *)
StrOfInt(i) == Digits[i + 1]

(* int(s) for a decimal digit string *)
IntOfStr(s) == CHOOSE i \in 0..9 : Digits[i + 1] = s

SeqsUpTo(S, n) == UNION {[1..k -> S] : k \in 0..n}

(* Python values a caller may pass as `text` *)
PyStr(chars) == [kind |-> "str", chars |-> chars, num |-> 0]
PyNone == [kind |-> "none", chars |-> <<>>, num |-> 0]
PyInt(n) == [kind |-> "int", chars |-> <<>>, num |-> n]

Texts == {PyStr(c) : c \in SeqsUpTo(Chars, MaxTextLen)} \cup {PyStr(<<LoneSurrogate>>)}
NonStrings == {PyNone, PyInt(0), PyInt(123)}
Inputs == Texts \cup NonStrings

---------------------------------------------------------------------------
(* The artifact directory the trainer leaves on disk *)

(* "id_to_label" of model_info.json: the indices 0..k-1 serialized as strings, *)
(* each with any label (two indices may carry the same one)                   *)
FileIdMaps ==
    UNION {[{StrOfInt(i) : i \in 0..(k - 1)} -> Labels] : k \in 0..MaxLabels}

(* position of a label among the labels of S, in sorted order, from 0 *)
RankIn(S, l) ==
    Cardinality({m \in S : \E i, j \in 1..Len(LabelOrder) :
                     LabelOrder[i] = m /\ LabelOrder[j] = l /\ i < j})

(* "label_to_id" of model_info.json *)
FileLabelMaps == {[l \in S |-> RankIn(S, l)] : S \in SUBSET Labels}

(* the inverse of a file's id_to_label, as a consistent trainer wrote it *)
LabelMapOf(idm) ==
    LET S == {idm[k] : k \in DOMAIN idm}
    IN  [l \in S |-> IntOfStr(CHOOSE k \in DOMAIN idm : idm[k] = l)]

(* weights a fitted classification head may have, one per output class *)
WeightVals == {0, 2}

Models == UNION {{[out_dim |-> n, W |-> w] : w \in [1..n -> WeightVals]} : n \in 1..MaxLabels}

NoModel == [out_dim |-> 0, W |-> <<>>]

Artifact(meta, idm, l2i, n, tok, mdl) ==
    [meta |-> meta, id_to_label |-> idm, label_to_id |-> l2i, num_labels |-> n,
     tokenizer |-> tok, model |-> mdl]

EmptyMap == [k \in {} |-> 0]

(* no model_info.json, or one json.load cannot parse *)
BrokenMetaArtifacts ==
    {Artifact(m, EmptyMap, EmptyMap, 0, "ok", mdl) :
        m \in {"missing", "unparseable"}, mdl \in {[out_dim |-> 1, W |-> <<0>>]}}

(* tokenizer files or weights absent from the directory *)
FilePresence == {<<"ok", "ok">>, <<"missing", "ok">>, <<"ok", "missing">>}

---------------------------------------------------------------------------
(* SentimentPredictor.__init__ *)

NoSelf ==
    [id_to_label |-> EmptyMap, label_to_id |-> EmptyMap, num_labels |-> 0,
     tokenizer |-> "none", model |-> NoModel, pattern_descriptions |-> EmptyMap]

(* _define_pattern_descriptions: one explanatory text per known pattern *)
pattern_descriptions ==
    [l \in {"fear", "chase-buying", "overconfidence", "loss-aversion",
            "confirmation-bias", "herd", "calm"} |-> "description of " \o l]

(* a loader that answers a missing or unreadable file with an empty mapping *)
LoadModelInfoLenient(d) ==
    IF d.meta # "ok" THEN [raised |-> NoException, fields |-> NoSelf]
    ELSE [raised |-> NoException,
          fields |-> [NoSelf EXCEPT
              !.id_to_label = [i \in {IntOfStr(k) : k \in DOMAIN d.id_to_label} |->
                                  d.id_to_label[StrOfInt(i)]],
              !.label_to_id = d.label_to_id,
              !.num_labels = d.num_labels]]

(* _load_model_info: the fields it sets, or the exception it raises *)
LoadModelInfo(d) ==
    IF d.meta = "missing" THEN [raised |-> "FileNotFoundError", fields |-> NoSelf]
    ELSE IF d.meta = "unparseable" THEN [raised |-> "JSONDecodeError", fields |-> NoSelf]
    ELSE [raised |-> NoException,
          fields |-> [NoSelf EXCEPT
              !.id_to_label = [i \in {IntOfStr(k) : k \in DOMAIN d.id_to_label} |->
                                  d.id_to_label[StrOfInt(i)]],
              !.label_to_id = d.label_to_id,
              !.num_labels = d.num_labels]]

(* __init__: model info, then tokenizer, then model, then the descriptions *)
InitOutcome(d) ==
    LET info == LoadModelInfo(d)
    IN  IF info.raised # NoException
        THEN [raised |-> info.raised, fields |-> NoSelf, trace |-> <<>>]
        ELSE IF d.tokenizer # "ok"
        THEN [raised |-> "OSError", fields |-> NoSelf, trace |-> <<"model_info">>]
        ELSE IF d.model = NoModel
        THEN [raised |-> "OSError", fields |-> NoSelf,
              trace |-> <<"model_info", "tokenizer">>]
        ELSE [raised |-> NoException,
              fields |-> [info.fields EXCEPT
                  !.tokenizer = "loaded",
                  !.model = d.model,
                  !.pattern_descriptions = pattern_descriptions],
              trace |-> <<"model_info", "tokenizer", "model", "descriptions">>]

Construct ==
    /\ pstate = "Unloaded"
    /\ LET r == InitOutcome(disk)
       IN  /\ pstate' = IF r.raised = NoException THEN "Ready" ELSE "Failed"
           /\ self' = r.fields
           /\ initTrace' = r.trace
           /\ raised' = r.raised
    /\ op' = "__init__"
    /\ arg' = NoValue
    /\ ret' = NoValue
    /\ tokCalls' = 0
    /\ fwdCalls' = 0
    /\ UNCHANGED disk
    /\ UNCHANGED <<appVars, concVars, trainVars, uiVars>>

---------------------------------------------------------------------------
(* Python semantics used by predict *)

(* `not text` *)
PyNot(x) ==
    CASE x.kind = "none" -> TRUE
      [] x.kind = "int" -> x.num = 0
      [] x.kind = "str" -> x.chars = <<>>

(* only str has the attribute strip *)
HasStrip(x) == x.kind = "str"

RECURSIVE LStrip(_)
LStrip(c) == IF c # <<>> /\ Head(c) = WS THEN LStrip(Tail(c)) ELSE c

RECURSIVE RStrip(_)
RStrip(c) == IF c # <<>> /\ c[Len(c)] = WS THEN RStrip(SubSeq(c, 1, Len(c) - 1)) ELSE c

(* a strip that strips nothing *)
StripNothing(c) == c

(* str.strip() *)
Strip(c) == RStrip(LStrip(c))

RECURSIVE SumSeq(_)
SumSeq(q) == IF q = <<>> THEN 0 ELSE Head(q) + SumSeq(Tail(q))

RECURSIVE Pow2(_)
Pow2(n) == IF n = 0 THEN 1 ELSE 2 * Pow2(n - 1)

(* self.tokenizer(text, truncation=True, padding='max_length', max_length=128):  *)
(* one token per non-blank character between [CLS] and [SEP], cut to max_length  *)
(* keeping the final [SEP], then padded to max_length: input_ids is the attended *)
(* tokens and n_pad the number of [PAD] tokens (attention 0) that follow them.   *)
(* A string that holds a lone surrogate cannot be encoded and the tokenizer      *)
(* raises.                                                                       *)
Tokenize(c) ==
    IF \E i \in 1..Len(c) : c[i] = LoneSurrogate
    THEN [raised |-> "TypeError", msg |-> "TextEncodeInput must be str",
          input_ids |-> <<>>, n_pad |-> 0]
    ELSE LET words == SelectSeq(c, LAMBDA ch : ch # WS)
             kept == IF Len(words) > MAX_LENGTH - 2
                     THEN SubSeq(words, 1, MAX_LENGTH - 2) ELSE words
             ids == <<"[CLS]">> \o kept \o <<"[SEP]">>
         IN  [raised |-> NoException, msg |-> "",
              input_ids |-> ids, n_pad |-> MAX_LENGTH - Len(ids)]

(* the forward pass, outputs.logits: one score per output class, from the *)
(* attended tokens other than [CLS] and [SEP]                             *)
Forward(m, enc) ==
    LET n == Len(enc.input_ids) - 2
    IN  [i \in 1..m.out_dim |-> m.W[i] * n]

(* exponentials that are not divided by their sum *)
SoftmaxUnnormalized(logits) == [i \in 1..Len(logits) |-> PScale * Pow2(logits[i])]

(* F.softmax(logits, dim=-1) *)
Softmax(logits) ==
    LET e == [i \in 1..Len(logits) |-> Pow2(logits[i])]
        z == SumSeq(e)
    IN  [i \in 1..Len(logits) |-> (PScale * e[i]) \div z]

(* the first index holding the minimum, as np.argmin would give *)
ArgMin(p) ==
    (CHOOSE i \in 1..Len(p) :
        /\ \A j \in 1..Len(p) : p[i] <= p[j]
        /\ \A j \in 1..(i - 1) : p[i] < p[j]) - 1

(* np.argmax: the first index holding the maximum, counted from 0 *)
ArgMax(p) ==
    (CHOOSE i \in 1..Len(p) :
        /\ \A j \in 1..Len(p) : p[j] <= p[i]
        /\ \A j \in 1..(i - 1) : p[j] < p[i]) - 1

(* round(confidence, 3): to the nearest 1/1000, a tie to the even neighbour *)
Round3(c) ==
    LET u == PScale \div 1000
        q == c \div u
        r == c % u
    IN  IF 2 * r < u THEN q * u
        ELSE IF 2 * r > u THEN (q + 1) * u
        ELSE IF q % 2 = 0 THEN q * u ELSE (q + 1) * u

(* the thresholds compared with > in place of >= *)
GetConfidenceLevelStrict(confidence) ==
    IF confidence * 10 > 9 * PScale THEN "very high"
    ELSE IF confidence * 10 > 7 * PScale THEN "high"
    ELSE IF confidence * 10 > 5 * PScale THEN "medium"
    ELSE "low"

(* _get_confidence_level *)
GetConfidenceLevel(confidence) ==
    IF confidence * 10 >= 9 * PScale THEN "very high"
    ELSE IF confidence * 10 >= 7 * PScale THEN "high"
    ELSE IF confidence * 10 >= 5 * PScale THEN "medium"
    ELSE "low"

(* _get_pattern_description: dict.get with a default *)
GetPatternDescription(s, pattern) ==
    IF pattern \in DOMAIN s.pattern_descriptions
    THEN s.pattern_descriptions[pattern]
    ELSE "generic pattern description"

Result(pattern, confidence, level, description, probs) ==
    [pattern |-> pattern, confidence |-> confidence, confidence_level |-> level,
     description |-> description, all_probabilities |-> probs]

(* the result of the empty-text short-circuit *)
SentinelResult ==
    Result("unanalyzable", 0, "none", "no text to analyze", EmptyMap)

(* the result of the except branch *)
ErrorResult(msg) ==
    Result("error", 0, "none", "error during analysis: " \o msg, EmptyMap)

Returned(r, tok, fwd) == [raised |-> NoException, ret |-> r, tok |-> tok, fwd |-> fwd]

(* the dict comprehension over enumerate(probabilities): a later index with the *)
(* same label overwrites an earlier one                                         *)
AllProbabilities(s, probs) ==
    LET n == Len(probs)
        keys == {s.id_to_label[i] : i \in 0..(n - 1)}
        last(l) == CHOOSE i \in 0..(n - 1) :
                       /\ s.id_to_label[i] = l
                       /\ \A j \in (i + 1)..(n - 1) : s.id_to_label[j] # l
    IN  [l \in keys |-> probs[last(l) + 1]]

(* the try block after a successful tokenizer call *)
Infer(s, enc) ==
    LET logits == Forward(s.model, enc)
        probabilities == Softmax(logits)
        predicted_class_id == ArgMax(probabilities)
        missing == {i \in 0..(Len(probabilities) - 1) : i \notin DOMAIN s.id_to_label}
    IN  IF predicted_class_id \notin DOMAIN s.id_to_label
        THEN Returned(ErrorResult(StrOfInt(predicted_class_id)), 1, 1)
        ELSE IF missing # {}
        THEN Returned(ErrorResult(StrOfInt(
                 CHOOSE i \in missing : \A j \in missing : i <= j)), 1, 1)
        ELSE LET predicted_pattern == s.id_to_label[predicted_class_id]
                 confidence == probabilities[predicted_class_id + 1]
             IN  Returned(Result(predicted_pattern,
                                 Round3(confidence),
                                 GetConfidenceLevel(confidence),
                                 GetPatternDescription(s, predicted_pattern),
                                 AllProbabilities(s, probabilities)), 1, 1)

(* predict(text): what it returns or raises, and the calls it makes *)
PredictOutcome(s, text) ==
    IF PyNot(text) THEN Returned(SentinelResult, 0, 0)
    ELSE IF ~HasStrip(text)
    THEN [raised |-> "AttributeError", ret |-> NoValue, tok |-> 0, fwd |-> 0]
    ELSE IF Strip(text.chars) = <<>> THEN Returned(SentinelResult, 0, 0)
    ELSE LET enc == Tokenize(text.chars)
         IN  IF enc.raised # NoException
             THEN Returned(ErrorResult(enc.msg), 1, 0)
             ELSE Infer(s, enc)

(* a predict that keeps adapting the loaded model: every call that ran the *)
(* forward pass resets the weights of the classification head            *)
PredictDrifting(text) ==
    /\ pstate = "Ready"
    /\ LET r == PredictOutcome(self, text)
       IN  /\ ret' = r.ret
           /\ raised' = r.raised
           /\ tokCalls' = r.tok
           /\ fwdCalls' = r.fwd
           /\ self' = IF r.fwd = 0 THEN self
                      ELSE [self EXCEPT !.model.W = [i \in 1..self.model.out_dim |-> 0]]
    /\ op' = "predict"
    /\ arg' = text
    /\ UNCHANGED <<disk, pstate, initTrace>>
    /\ UNCHANGED <<appVars, concVars, trainVars, uiVars>>

Predict(text) ==
    /\ pstate = "Ready"
    /\ LET r == PredictOutcome(self, text)
       IN  /\ ret' = r.ret
           /\ raised' = r.raised
           /\ tokCalls' = r.tok
           /\ fwdCalls' = r.fwd
    /\ op' = "predict"
    /\ arg' = text
    /\ UNCHANGED <<disk, pstate, self, initTrace>>
    /\ UNCHANGED <<appVars, concVars, trainVars, uiVars>>

(* the dict get_model_info builds *)
ModelInfo(s) ==
    [device |-> "cpu", num_labels |-> s.num_labels,
     label_to_id |-> s.label_to_id, id_to_label |-> s.id_to_label,
     available_patterns |-> DOMAIN s.pattern_descriptions]

(* get_model_info *)
GetModelInfo ==
    /\ pstate = "Ready"
    /\ op' = "get_model_info"
    /\ arg' = NoValue
    /\ ret' = ModelInfo(self)
    /\ raised' = NoException
    /\ tokCalls' = 0
    /\ fwdCalls' = 0
    /\ UNCHANGED <<disk, pstate, self, initTrace>>
    /\ UNCHANGED <<appVars, concVars, trainVars, uiVars>>

(* a loop that puts each result in front of the earlier ones *)
RECURSIVE BatchLoopPrepend(_, _, _, _, _)
BatchLoopPrepend(s, texts, results, tok, fwd) ==
    IF texts = <<>> THEN Returned(results, tok, fwd)
    ELSE LET r == PredictOutcome(s, Head(texts))
         IN  IF r.raised # NoException
             THEN [raised |-> r.raised, ret |-> NoValue,
                   tok |-> tok + r.tok, fwd |-> fwd + r.fwd]
             ELSE BatchLoopPrepend(s, Tail(texts), <<r.ret>> \o results,
                                   tok + r.tok, fwd + r.fwd)

(* predict_batch: the loop over texts, appending each predict result; an   *)
(* exception of predict leaves the loop and the call                        *)
RECURSIVE BatchLoop(_, _, _, _, _)
BatchLoop(s, texts, results, tok, fwd) ==
    IF texts = <<>> THEN Returned(results, tok, fwd)
    ELSE LET r == PredictOutcome(s, Head(texts))
         IN  IF r.raised # NoException
             THEN [raised |-> r.raised, ret |-> NoValue,
                   tok |-> tok + r.tok, fwd |-> fwd + r.fwd]
             ELSE BatchLoop(s, Tail(texts), Append(results, r.ret),
                            tok + r.tok, fwd + r.fwd)

PredictBatch(texts) ==
    /\ pstate = "Ready"
    /\ LET r == BatchLoop(self, texts, <<>>, 0, 0)
       IN  /\ ret' = r.ret
           /\ raised' = r.raised
           /\ tokCalls' = r.tok
           /\ fwdCalls' = r.fwd
    /\ op' = "predict_batch"
    /\ arg' = texts
    /\ UNCHANGED <<disk, pstate, self, initTrace>>
    /\ UNCHANGED <<appVars, concVars, trainVars, uiVars>>

(* a call of _get_confidence_level on the confidence held in arg *)
ConfidenceLevel ==
    /\ pstate = "Ready"
    /\ op = "none"
    /\ op' = "_get_confidence_level"
    /\ ret' = GetConfidenceLevel(arg)
    /\ raised' = NoException
    /\ tokCalls' = 0
    /\ fwdCalls' = 0
    /\ UNCHANGED <<disk, pstate, self, initTrace, arg>>
    /\ UNCHANGED <<appVars, concVars, trainVars, uiVars>>

---------------------------------------------------------------------------
(* Spec: one predictor, constructed from any artifact, answering predict.     *)
(* predict reads neither label_to_id nor num_labels, so here the metadata     *)
(* file holds the ones that agree with its id_to_label.                       *)

PredictArtifacts ==
    {Artifact("ok", idm, LabelMapOf(idm), Cardinality(DOMAIN idm), f[1],
              IF f[2] = "ok" THEN m ELSE NoModel) :
        idm \in FileIdMaps, m \in Models, f \in FilePresence}
    \cup BrokenMetaArtifacts

(* no page is open, nobody calls concurrently, no training run has started *)
NoPage ==
    /\ sessions = <<>>
    /\ cache = NoValue
    /\ ctorRuns = 0

NoCallers ==
    /\ callers = <<>>
    /\ lastInputs = NoValue

NoTraining ==
    /\ corpus = <<>>
    /\ tpc = "not started"
    /\ train = NoValue
    /\ files = <<>>

NoBrowser == sstate = NoValue /\ page = "none"

InitCall ==
    /\ pstate = "Unloaded"
    /\ self = NoSelf
    /\ initTrace = <<>>
    /\ op = "none"
    /\ arg = NoValue
    /\ ret = NoValue
    /\ raised = NoException
    /\ tokCalls = 0
    /\ fwdCalls = 0
    /\ NoPage /\ NoCallers /\ NoTraining /\ NoBrowser

Init ==
    /\ disk \in PredictArtifacts
    /\ InitCall

Next ==
    \/ Construct
    \/ \E text \in Inputs : Predict(text)
    \/ GetModelInfo

Spec == Init /\ [][Next]_vars

---------------------------------------------------------------------------
(* SpecLoad: construction from every metadata file, consistent or not.  The  *)
(* model has one output per entry of the file's id_to_label.                 *)

UniformModel(n) == [out_dim |-> n, W |-> [i \in 1..n |-> 0]]

LoadArtifacts ==
    {Artifact("ok", idm, l2i, n, "ok",
              UniformModel(IF DOMAIN idm = {} THEN 1 ELSE Cardinality(DOMAIN idm))) :
        idm \in FileIdMaps, l2i \in FileLabelMaps, n \in 0..(MaxLabels + 1)}
    \cup BrokenMetaArtifacts

LoadInputs == {PyStr(<<"a">>)}

InitLoad ==
    /\ disk \in LoadArtifacts
    /\ InitCall

NextLoad ==
    \/ Construct
    \/ \E text \in LoadInputs : Predict(text)
    \/ GetModelInfo

SpecLoad == InitLoad /\ [][NextLoad]_vars

---------------------------------------------------------------------------
(* SpecBatch: predict and predict_batch in any order on one predictor, built *)
(* from an artifact as a training run writes it (labels 0..k-1 in sorted     *)
(* order) with any model of up to MaxLabels outputs.                         *)

TrainedIdMap(k) == [key \in {StrOfInt(i) : i \in 0..(k - 1)} |-> LabelOrder[IntOfStr(key) + 1]]

BatchArtifacts ==
    {Artifact("ok", TrainedIdMap(k), LabelMapOf(TrainedIdMap(k)), k, "ok", m) :
        k \in 1..Len(LabelOrder), m \in Models}

(* one input of each kind: empty, blank, two memos, an unencodable one, no str *)
BatchInputs ==
    {PyStr(<<>>), PyStr(<<WS>>), PyStr(<<"a">>), PyStr(<<"a", "a">>),
     PyStr(<<LoneSurrogate>>), PyInt(123)}

InitBatch ==
    /\ disk \in BatchArtifacts
    /\ InitCall

(* two batch calls are always separated by another call *)
NextBatch ==
    \/ Construct
    \/ \E text \in BatchInputs : Predict(text)
    \/ op # "predict_batch" /\ \E texts \in SeqsUpTo(BatchInputs, MaxBatch) : PredictBatch(texts)
    \/ GetModelInfo

SpecBatch == InitBatch /\ [][NextBatch]_vars

---------------------------------------------------------------------------
(* SpecLevel: _get_confidence_level applied to every confidence of the grid, *)
(* on a predictor loaded from a two-label artifact                           *)

Confidences == 0..PScale

LevelArtifact ==
    Artifact("ok", TrainedIdMap(2), LabelMapOf(TrainedIdMap(2)), 2, "ok", UniformModel(2))

InitLevel ==
    /\ disk = LevelArtifact
    /\ pstate = "Ready"
    /\ self = InitOutcome(LevelArtifact).fields
    /\ initTrace = InitOutcome(LevelArtifact).trace
    /\ op = "none"
    /\ arg \in Confidences
    /\ ret = NoValue
    /\ raised = NoException
    /\ tokCalls = 0
    /\ fwdCalls = 0
    /\ NoPage /\ NoCallers /\ NoTraining /\ NoBrowser

NextLevel == ConfidenceLevel

SpecLevel == InitLevel /\ [][NextLevel]_vars

---------------------------------------------------------------------------
(* SpecApp: the coaching page. Every page run of every browser session     *)
(* calls load_sentiment_model, which st.cache_resource memoizes: a lookup  *)
(* without the lock, on a miss the compute lock, a second lookup under the *)
(* lock, then the function body, whose return value is stored. The         *)
(* artifact directory may be rewritten between any two steps.              *)

MaxSessions == 2    \* browser sessions running the page
MaxLoads == 3       \* most runs of the body of load_sentiment_model

Sessions == 1..MaxSessions

(* no object: the cache entry is absent, the run holds no predictor yet *)
NoHandle == [kind |-> "none", id |-> 0]

(* String literals of 3_AI_Coaching.py, as English glosses:                *)
(*   90-98  the stand-in's labels "fear" "chase-buying" "calm", band "high" *)
(*   93     "a fear of a market fall was detected"                         *)
(*   359    the status metric "load complete"                              *)

(* DummyPredictor.predict: the same dict for every text *)
DummyPredict(text) ==
    Result("fear", (75 * PScale) \div 100, "high", "a fear of a market fall was detected",
           [l \in {"fear", "chase-buying", "calm"} |->
               IF l = "fear" THEN (75 * PScale) \div 100
               ELSE IF l = "chase-buying" THEN (15 * PScale) \div 100
               ELSE (10 * PScale) \div 100])

(* DummyPredictor.get_model_info *)
DummyModelInfo ==
    [device |-> "cpu", num_labels |-> 3,
     available_patterns |-> {"fear", "chase-buying", "calm"}]

(* what load_sentiment_model returns: the predictor it constructed, or the *)
(* stand-in when the constructor raised; id tells the objects apart        *)
LoadSentimentModel(r, id) ==
    IF r.raised = NoException THEN [kind |-> "SentimentPredictor", id |-> id]
    ELSE [kind |-> "DummyPredictor", id |-> id]

(* the cache lookup: any stored return value is a hit *)
CacheHitRealOnly(c) == c.value # NoHandle /\ c.value.kind = "SentimentPredictor"

CacheHit(c) == c.value # NoHandle

(* the second lookup, made after the compute lock was acquired *)
RecheckSkipped(c) == FALSE

Recheck(c) == CacheHit(c)

(* the artifact directories the page can find *)
AppArtifacts ==
    {Artifact("missing", EmptyMap, EmptyMap, 0, "missing", NoModel),
     Artifact("ok", TrainedIdMap(2), LabelMapOf(TrainedIdMap(2)), 2, "ok", UniformModel(2)),
     Artifact("ok", TrainedIdMap(3), LabelMapOf(TrainedIdMap(3)), 3, "ok", UniformModel(3))}

AppInputs == {PyStr(<<>>), PyStr(<<"a">>)}

NoCall ==
    /\ op' = op /\ arg' = arg /\ ret' = ret /\ raised' = raised
    /\ tokCalls' = tokCalls /\ fwdCalls' = fwdCalls

(* predictor = load_sentiment_model(): the lookup without the lock *)
OpenPage(s) ==
    /\ sessions[s].pc = "idle"
    /\ sessions' = [sessions EXCEPT ![s] =
           IF CacheHit(cache) THEN [pc |-> "has", handle |-> cache.value]
           ELSE [pc |-> "miss", handle |-> NoHandle]]
    /\ NoCall
    /\ UNCHANGED <<disk, pstate, self, initTrace, cache, ctorRuns, concVars, trainVars, uiVars>>

(* the miss handler takes the compute lock and looks again *)
AcquireLock(s) ==
    /\ sessions[s].pc = "miss"
    /\ cache.holder = 0
    /\ IF Recheck(cache)
       THEN /\ sessions' = [sessions EXCEPT ![s] = [pc |-> "has", handle |-> cache.value]]
            /\ UNCHANGED <<cache, pstate>>
       ELSE /\ sessions' = [sessions EXCEPT ![s].pc = "computing"]
            /\ cache' = [cache EXCEPT !.holder = s]
            /\ pstate' = "Loading"
    /\ NoCall
    /\ UNCHANGED <<disk, self, initTrace, ctorRuns, concVars, trainVars, uiVars>>

(* the body of load_sentiment_model, its return value stored in the cache *)
RunLoader(s) ==
    /\ sessions[s].pc = "computing"
    /\ ctorRuns < MaxLoads
    /\ LET r == InitOutcome(disk)
           v == LoadSentimentModel(r, ctorRuns + 1)
       IN  /\ pstate' = IF r.raised = NoException THEN "Ready" ELSE "Failed"
           /\ self' = r.fields
           /\ initTrace' = r.trace
           /\ cache' = [holder |-> 0, value |-> v]
           /\ sessions' = [sessions EXCEPT ![s] = [pc |-> "has", handle |-> v]]
    /\ ctorRuns' = ctorRuns + 1
    /\ op' = "__init__"
    /\ arg' = NoValue
    /\ ret' = NoValue
    /\ raised' = NoException
    /\ tokCalls' = 0
    /\ fwdCalls' = 0
    /\ UNCHANGED <<disk, concVars, trainVars, uiVars>>

(* the expander with the engine's information: the descriptor's fields and *)
(* the status metric of line 359                                           *)
ShowModelInfo(s) ==
    /\ sessions[s].pc = "has"
    /\ sessions' = [sessions EXCEPT ![s].pc = "shown"]
    /\ op' = "page:model_info"
    /\ arg' = sessions[s].handle
    /\ LET model_info == IF sessions[s].handle.kind = "SentimentPredictor"
                         THEN ModelInfo(self) ELSE DummyModelInfo
       IN  ret' = [num_labels |-> model_info.num_labels,
                   device |-> model_info.device,
                   status |-> "load complete",
                   available_patterns |-> model_info.available_patterns]
    /\ raised' = NoException
    /\ tokCalls' = 0
    /\ fwdCalls' = 0
    /\ UNCHANGED <<disk, pstate, self, initTrace, cache, ctorRuns, concVars, trainVars, uiVars>>

(* result = predictor.predict(user_input) *)
Analyze(s, text) ==
    /\ sessions[s].pc = "shown"
    /\ sessions' = [sessions EXCEPT ![s].pc = "analyzed"]
    /\ op' = "page:predict"
    /\ arg' = text
    /\ IF sessions[s].handle.kind = "SentimentPredictor"
       THEN LET r == PredictOutcome(self, text)
            IN  /\ ret' = r.ret
                /\ raised' = r.raised
                /\ tokCalls' = r.tok
                /\ fwdCalls' = r.fwd
       ELSE /\ ret' = DummyPredict(text)
            /\ raised' = NoException
            /\ tokCalls' = 0
            /\ fwdCalls' = 0
    /\ UNCHANGED <<disk, pstate, self, initTrace, cache, ctorRuns, concVars, trainVars, uiVars>>

(* the script run ends; the next interaction reruns the page *)
EndRun(s) ==
    /\ sessions[s].pc \in {"shown", "analyzed"}
    /\ sessions' = [sessions EXCEPT ![s] = [pc |-> "idle", handle |-> NoHandle]]
    /\ NoCall
    /\ UNCHANGED <<disk, pstate, self, initTrace, cache, ctorRuns, concVars, trainVars, uiVars>>

(* the training script, or anyone else, rewrites ./sentiment_model *)
RewriteArtifact ==
    /\ \E d \in AppArtifacts \ {disk} : disk' = d
    /\ NoCall
    /\ UNCHANGED <<pstate, self, initTrace, appVars, concVars, trainVars, uiVars>>

InitApp ==
    /\ disk \in AppArtifacts
    /\ pstate = "Unloaded"
    /\ self = NoSelf
    /\ initTrace = <<>>
    /\ op = "none"
    /\ arg = NoValue
    /\ ret = NoValue
    /\ raised = NoException
    /\ tokCalls = 0
    /\ fwdCalls = 0
    /\ sessions = [s \in Sessions |-> [pc |-> "idle", handle |-> NoHandle]]
    /\ cache = [holder |-> 0, value |-> NoHandle]
    /\ ctorRuns = 0
    /\ NoCallers /\ NoTraining /\ NoBrowser

NextApp ==
    \/ \E s \in Sessions : OpenPage(s)
    \/ \E s \in Sessions : AcquireLock(s)
    \/ \E s \in Sessions : RunLoader(s)
    \/ \E s \in Sessions : ShowModelInfo(s)
    \/ \E s \in Sessions, text \in AppInputs : Analyze(s, text)
    \/ \E s \in Sessions : EndRun(s)
    \/ RewriteArtifact

SpecApp == InitApp /\ [][NextApp]_vars

---------------------------------------------------------------------------
(* SpecConc: two independent callers use one loaded predictor at the same  *)
(* time, with no lock. A call is a sequence of steps, one tokenizer call   *)
(* and one forward pass per text, and the steps of the two calls           *)
(* interleave in every order.                                              *)

Callers == {"A", "B"}

ConcArtifact ==
    Artifact("ok", TrainedIdMap(2), LabelMapOf(TrainedIdMap(2)), 2, "ok",
             [out_dim |-> 2, W |-> <<0, 2>>])

ConcInputs == {PyStr(<<>>), PyStr(<<"a">>), PyStr(<<"a", "a">>)}

(* the frame of a call: texts is the argument, todo the texts the loop has  *)
(* not reached, inputs the tokenizer output of the text in hand, results    *)
(* the list built so far                                                     *)
NoInputs == [raised |-> NoException, msg |-> "", input_ids |-> <<>>, n_pad |-> 0]

IdleCaller ==
    [pc |-> "idle", kind |-> "none", texts |-> <<>>, todo |-> <<>>,
     inputs |-> NoInputs, results |-> <<>>]

(* the inputs the forward pass of caller c reads: kept in an attribute of *)
(* the shared instance instead of the frame                               *)
SharedInputs(c) == lastInputs

(* the inputs the forward pass of caller c reads: the local of its frame *)
CallerInputs(c) == callers[c].inputs

(* predict(text) or predict_batch(texts) is entered *)
BeginCall(c, kind, texts) ==
    /\ callers[c].pc = "idle"
    /\ callers' = [callers EXCEPT ![c] =
           [IdleCaller EXCEPT !.pc = "running", !.kind = kind,
                              !.texts = texts, !.todo = texts]]
    /\ UNCHANGED <<disk, pstate, self, initTrace, lastInputs, appVars, trainVars, uiVars>>
    /\ NoCall

(* predict up to the tokenizer call: the empty-text test, then tokenizing *)
TokenizeStep(c) ==
    /\ callers[c].pc = "running"
    /\ callers[c].todo # <<>>
    /\ LET text == Head(callers[c].todo)
       IN  IF PyNot(text) \/ Strip(text.chars) = <<>>
           THEN /\ callers' = [callers EXCEPT
                       ![c].results = Append(@, SentinelResult),
                       ![c].todo = Tail(@)]
                /\ UNCHANGED lastInputs
           ELSE LET enc == Tokenize(text.chars)
                IN  /\ callers' = [callers EXCEPT ![c].inputs = enc,
                                                  ![c].pc = "tokenized"]
                    /\ lastInputs' = enc
    /\ UNCHANGED <<disk, pstate, self, initTrace, appVars, trainVars, uiVars>>
    /\ NoCall

(* the rest of predict's try block: forward pass, softmax, result *)
ForwardStep(c) ==
    /\ callers[c].pc = "tokenized"
    /\ callers' = [callers EXCEPT
           ![c].results = Append(@, Infer(self, CallerInputs(c)).ret),
           ![c].todo = Tail(@),
           ![c].inputs = NoInputs,
           ![c].pc = "running"]
    /\ UNCHANGED <<disk, pstate, self, initTrace, lastInputs, appVars, trainVars, uiVars>>
    /\ NoCall

(* the call returns: predict its result, predict_batch the list *)
ReturnStep(c) ==
    /\ callers[c].pc = "running"
    /\ callers[c].todo = <<>>
    /\ callers' = [callers EXCEPT ![c].pc = "returned"]
    /\ UNCHANGED <<disk, pstate, self, initTrace, lastInputs, appVars, trainVars, uiVars>>
    /\ NoCall

(* the caller drops the result and is free to call again *)
NextCall(c) ==
    /\ callers[c].pc = "returned"
    /\ callers' = [callers EXCEPT ![c] = IdleCaller]
    /\ UNCHANGED <<disk, pstate, self, initTrace, lastInputs, appVars, trainVars, uiVars>>
    /\ NoCall

InitConc ==
    /\ disk = ConcArtifact
    /\ pstate = "Ready"
    /\ self = InitOutcome(ConcArtifact).fields
    /\ initTrace = InitOutcome(ConcArtifact).trace
    /\ op = "none"
    /\ arg = NoValue
    /\ ret = NoValue
    /\ raised = NoException
    /\ tokCalls = 0
    /\ fwdCalls = 0
    /\ callers = [c \in Callers |-> IdleCaller]
    /\ lastInputs = NoInputs
    /\ NoPage /\ NoTraining /\ NoBrowser

NextConc ==
    \/ \E c \in Callers, text \in ConcInputs : BeginCall(c, "predict", <<text>>)
    \/ \E c \in Callers, texts \in SeqsUpTo(ConcInputs, MaxBatch) :
           BeginCall(c, "predict_batch", texts)
    \/ \E c \in Callers : TokenizeStep(c)
    \/ \E c \in Callers : ForwardStep(c)
    \/ \E c \in Callers : ReturnStep(c)
    \/ \E c \in Callers : NextCall(c)

SpecConc == InitConc /\ [][NextConc]_vars

---------------------------------------------------------------------------
(* The training script: preprocess_data and save_model_info               *)

(* Column names and cell values of train_emotion_model.py, as glosses:     *)
(*   151  the required columns "memo" (the text) and "tag" (the label)     *)
(* A cell is a str or missing (NaN); a tag is written over ' ', '#', 'a'   *)
(* and 'b'.                                                                *)

MaxRows == 3        \* most rows of the combined CSV data
MaxEvals == 3       \* most evaluation checkpoints of a training run

Marker == "#"

(* code points, for the order of Python strings *)
CharCode(ch) ==
    IF ch = WS THEN 32 ELSE IF ch = Marker THEN 35
    ELSE IF ch = "a" THEN 97 ELSE IF ch = "b" THEN 98 ELSE 109

TagCells ==
    {PyNone, PyStr(<<WS>>), PyStr(<<Marker>>), PyStr(<<"a">>), PyStr(<<Marker, "a">>),
     PyStr(<<"a", Marker>>), PyStr(<<"b">>), PyStr(<<Marker, "b">>)}

Row(memo, tag) == [memo |-> memo, tag |-> tag]

(* rows with a memo, and rows whose memo is missing or blank *)
Rows ==
    {Row(PyStr(<<"m">>), t) : t \in TagCells}
    \cup {Row(PyNone, PyStr(<<"a">>)), Row(PyStr(<<WS>>), PyStr(<<"a">>)),
          Row(PyNone, PyNone)}

required_columns == <<"memo", "tag">>

DataFrame(columns, rows) == [columns |-> columns, rows |-> rows]

Corpora == {DataFrame({"memo", "tag"}, rows) : rows \in SeqsUpTo(Rows, MaxRows)}

(* the str of a sequence of characters *)
RECURSIVE TagStr(_)
TagStr(c) == IF c = <<>> THEN "" ELSE Head(c) \o TagStr(Tail(c))

(* a < b for Python strings: code point by code point, a prefix first *)
RECURSIVE StrLess(_, _)
StrLess(a, b) ==
    IF b = <<>> THEN FALSE
    ELSE IF a = <<>> THEN TRUE
    ELSE IF CharCode(Head(a)) # CharCode(Head(b)) THEN CharCode(Head(a)) < CharCode(Head(b))
    ELSE StrLess(Tail(a), Tail(b))

(* df.dropna(subset=[memo, tag]) *)
DropNA(rows) == SelectSeq(rows, LAMBDA r : r.memo # PyNone /\ r.tag # PyNone)

(* a cell compared with '' without trimming it *)
NonBlankUntrimmed(cell) == cell.chars # <<>>

(* cell.str.strip() != '' *)
NonBlank(cell) == Strip(cell.chars) # <<>>

(* str.replace that removes only a marker in first position *)
RemoveLeadingMarker(c) == IF c # <<>> /\ Head(c) = Marker THEN Tail(c) ELSE c

(* str.replace('#', '', regex=False): scans the string, dropping each '#' *)
RECURSIVE RemoveMarker(_)
RemoveMarker(c) ==
    IF c = <<>> THEN <<>>
    ELSE IF Head(c) = Marker THEN RemoveMarker(Tail(c))
    ELSE <<Head(c)>> \o RemoveMarker(Tail(c))

(* classes in order of first appearance *)
RECURSIVE FirstSeen(_, _)
FirstSeen(tags, acc) ==
    IF tags = <<>> THEN acc
    ELSE FirstSeen(Tail(tags),
                   IF \E i \in 1..Len(acc) : acc[i] = Head(tags) THEN acc
                   ELSE Append(acc, Head(tags)))

(* x put at its place in a sorted sequence without duplicates *)
InsertSorted(sorted, x) ==
    IF \E i \in 1..Len(sorted) : sorted[i] = x THEN sorted
    ELSE LET before == SelectSeq(sorted, LAMBDA y : StrLess(y, x))
             after == SelectSeq(sorted, LAMBDA y : StrLess(x, y))
         IN  before \o <<x>> \o after

(* LabelEncoder.fit: classes_ is the sorted array of the distinct values *)
RECURSIVE Classes(_, _)
Classes(tags, acc) ==
    IF tags = <<>> THEN acc
    ELSE Classes(Tail(tags), InsertSorted(acc, Head(tags)))

(* enumerate(...) counting from 1 *)
LabelToIdFromOne(classes) ==
    [l \in {TagStr(classes[i]) : i \in 1..Len(classes)} |->
        CHOOSE i \in 1..Len(classes) : TagStr(classes[i]) = l]

(* {label: idx for idx, label in enumerate(label_encoder.classes_)} *)
LabelToId(classes) ==
    [l \in {TagStr(classes[i]) : i \in 1..Len(classes)} |->
        (CHOOSE i \in 1..Len(classes) : TagStr(classes[i]) = l) - 1]

(* {idx: label for label, idx in label_to_id.items()} *)
IdToLabel(label_to_id) ==
    [i \in {label_to_id[l] : l \in DOMAIN label_to_id} |->
        CHOOSE l \in DOMAIN label_to_id : label_to_id[l] = i]

(* the locals of main *)
NoTrain ==
    [df |-> <<>>, label_to_id |-> EmptyMap, id_to_label |-> EmptyMap,
     n_train |-> 0, n_val |-> 0, val_counts |-> EmptyMap, model |-> NoModel,
     checkpoints |-> <<>>, best |-> NoModel, best_metric |-> 0, stale |-> 0,
     last |-> NoModel, eval_accuracy |-> 0, raised |-> NoException]

(* preprocess_data(df): the cleaned rows with their encoded label and the *)
(* two mappings, or the exception raised                                  *)
PreprocessData(df) ==
    LET missing_columns ==
            SelectSeq(required_columns, LAMBDA col : col \notin df.columns)
    IN  IF missing_columns # <<>> THEN [NoTrain EXCEPT !.raised = "ValueError"]
        ELSE LET present == DropNA(df.rows)
                 with_memo == SelectSeq(present, LAMBDA r : NonBlank(r.memo))
                 with_tag == SelectSeq(with_memo, LAMBDA r : NonBlank(r.tag))
                 cleaned == [i \in 1..Len(with_tag) |->
                                [with_tag[i] EXCEPT !.tag = PyStr(RemoveMarker(@.chars))]]
                 classes == Classes([i \in 1..Len(cleaned) |-> cleaned[i].tag.chars], <<>>)
                 label_to_id == LabelToId(classes)
             IN  [NoTrain EXCEPT
                      !.df = [i \in 1..Len(cleaned) |->
                                 [memo |-> cleaned[i].memo, tag |-> cleaned[i].tag,
                                  label_encoded |->
                                      label_to_id[TagStr(cleaned[i].tag.chars)]]],
                      !.label_to_id = label_to_id,
                      !.id_to_label = IdToLabel(label_to_id)]

(* the id_to_label entry of model_info.json with keys str(k + 1) *)
StrKeysFromOne(id_to_label) ==
    [k \in {StrOfInt(i + 1) : i \in DOMAIN id_to_label} |-> id_to_label[IntOfStr(k) - 1]]

(* 'id_to_label': {str(k): v for k, v in id_to_label.items()} *)
StrKeys(id_to_label) ==
    [k \in {StrOfInt(i) : i \in DOMAIN id_to_label} |-> id_to_label[IntOfStr(k)]]

(* save_model_info: model_info.json written into the output directory *)
WriteModelInfo(d, label_to_id, id_to_label) ==
    [d EXCEPT !.meta = "ok",
              !.label_to_id = label_to_id,
              !.id_to_label = StrKeys(id_to_label),
              !.num_labels = Cardinality(DOMAIN label_to_id)]

(* SpecPrep: preprocess_data on every corpus of up to MaxRows rows, then    *)
(* save_model_info on its mappings, then a predictor loading the directory *)

Preprocess ==
    /\ tpc = "loaded"
    /\ LET r == PreprocessData(corpus)
       IN  /\ train' = r
           /\ tpc' = IF r.raised = NoException THEN "preprocessed" ELSE "aborted"
    /\ UNCHANGED <<disk, pstate, self, initTrace, corpus, files, appVars, concVars, uiVars>>
    /\ NoCall

SaveModelInfo ==
    /\ tpc = "preprocessed"
    /\ disk' = WriteModelInfo(disk, train.label_to_id, train.id_to_label)
    /\ tpc' = "saved"
    /\ UNCHANGED <<pstate, self, initTrace, corpus, files, train, appVars, concVars, uiVars>>
    /\ NoCall

(* a directory that holds a tokenizer and weights, and no model_info.json yet *)
PrepDirectory == Artifact("missing", EmptyMap, EmptyMap, 0, "ok", UniformModel(1))

InitPrep ==
    /\ disk = PrepDirectory
    /\ pstate = "Unloaded"
    /\ self = NoSelf
    /\ initTrace = <<>>
    /\ op = "none"
    /\ arg = NoValue
    /\ ret = NoValue
    /\ raised = NoException
    /\ tokCalls = 0
    /\ fwdCalls = 0
    /\ NoPage /\ NoCallers /\ NoBrowser
    /\ files = <<>>
    /\ corpus \in Corpora
    /\ tpc = "loaded"
    /\ train = NoTrain

NextPrep ==
    \/ Preprocess
    \/ SaveModelInfo
    \/ tpc = "saved" /\ Construct
    \/ GetModelInfo

SpecPrep == InitPrep /\ [][NextPrep]_vars

---------------------------------------------------------------------------
(* SpecTrain: main of the training script, step by step, writing into the  *)
(* output directory ./sentiment_model. The directory is empty at the start *)
(* or holds the artifact of an earlier run, and any step may end the run   *)
(* with an exception.                                                      *)

SumOver(f) ==
    LET RECURSIVE S(_)
        S(D) == IF D = {} THEN 0
                ELSE LET x == CHOOSE y \in D : TRUE IN f[x] + S(D \ {x})
    IN  S(DOMAIN f)

(* train_test_split(df, test_size=0.2, stratify=label_encoded): the sizes *)
(* of the two parts, or the ValueError for data that cannot be stratified *)
CreateTrainValSplit(df) ==
    LET n == Len(df)
        n_val == (n + 4) \div 5
        n_train == (4 * n) \div 5
        classes == {df[i].label_encoded : i \in 1..n}
        count(c) == Cardinality({i \in 1..n : df[i].label_encoded = c})
    IN  IF \/ n = 0
           \/ n_train = 0
           \/ \E c \in classes : count(c) < 2
           \/ n_train < Cardinality(classes)
           \/ n_val < Cardinality(classes)
        THEN [raised |-> "ValueError", n_train |-> 0, n_val |-> 0]
        ELSE [raised |-> NoException, n_train |-> n_train, n_val |-> n_val]

(* stratify=df['label_encoded']: how many rows of each class the validation *)
(* part can get, the class's share of n_val rounded down or up              *)
StratifiedValCounts(df, n_val) ==
    LET n == Len(df)
        classes == {df[i].label_encoded : i \in 1..n}
        count(c) == Cardinality({i \in 1..n : df[i].label_encoded = c})
    IN  {vc \in [classes -> 0..n_val] :
            /\ SumOver(vc) = n_val
            /\ \A c \in classes :
                   /\ vc[c] * n >= count(c) * n_val - (n - 1)
                   /\ vc[c] * n <= count(c) * n_val + (n - 1)}

(* compute_metrics on trainer's evaluation of the validation part: the     *)
(* share of its rows whose label is the argmax of the model's logits       *)
Accuracy(m, val_counts) ==
    LET predictions == Forward(m, Tokenize(<<"m">>))
        y_pred == ArgMax(predictions)
    IN  IF y_pred \in DOMAIN val_counts
        THEN (PScale * val_counts[y_pred]) \div SumOver(val_counts)
        ELSE 0

(* rows of the corpora of this specification *)
TrainRows ==
    {Row(PyStr(<<"m">>), PyStr(<<"a">>)), Row(PyStr(<<"m">>), PyStr(<<Marker, "a">>)),
     Row(PyStr(<<"m">>), PyStr(<<"b">>)), Row(PyNone, PyStr(<<"a">>))}

TrainCorpora == {DataFrame({"memo", "tag"}, rows) : rows \in SeqsUpTo(TrainRows, MaxRows)}

(* the output directory before the run: empty, or the two-label artifact *)
(* of an earlier run                                                      *)
EmptyDirectory == Artifact("missing", EmptyMap, EmptyMap, 0, "missing", NoModel)

OutputDirectories ==
    {EmptyDirectory,
     Artifact("ok", TrainedIdMap(2), LabelMapOf(TrainedIdMap(2)), 2, "ok", UniformModel(2))}

TrainStep(from, to) ==
    /\ tpc = from
    /\ tpc' = to
    /\ NoCall
    /\ UNCHANGED <<pstate, self, initTrace, corpus, files, appVars, concVars, uiVars>>

(* 3. train_df, val_df = create_train_val_split(df) *)
Split ==
    /\ tpc = "preprocessed"
    /\ LET r == CreateTrainValSplit(train.df)
       IN  /\ IF r.raised = NoException
              THEN \E vc \in StratifiedValCounts(train.df, r.n_val) :
                       train' = [train EXCEPT !.n_train = r.n_train, !.n_val = r.n_val,
                                              !.val_counts = vc]
              ELSE train' = [train EXCEPT !.raised = r.raised]
           /\ tpc' = IF r.raised = NoException THEN "split" ELSE "aborted"
    /\ NoCall
    /\ UNCHANGED <<disk, pstate, self, initTrace, corpus, files, appVars, concVars, uiVars>>

(* 4. initialize_model_and_tokenizer(MODEL_NAME, len(label_to_id)) *)
InitializeModel ==
    /\ TrainStep("split", "initialized")
    /\ train' = [train EXCEPT !.model = UniformModel(Cardinality(DOMAIN train.label_to_id))]
    /\ UNCHANGED disk

(* early_stopping_patience=2 *)
early_stopping_patience == 2

(* 8. trainer.train(), at a multiple of eval_steps = save_steps = 50: the   *)
(* parameters have moved, the model is evaluated and saved as a checkpoint; *)
(* an accuracy greater than the best so far makes it the best checkpoint,   *)
(* any other counts towards early stopping                                  *)
Checkpoint ==
    /\ \/ TrainStep("initialized", "training")
       \/ TrainStep("training", "training")
    /\ Len(train.checkpoints) < MaxEvals
    /\ train.stale < early_stopping_patience
    /\ \E w \in [1..train.model.out_dim -> WeightVals] :
           LET m == [train.model EXCEPT !.W = w]
               accuracy == Accuracy(m, train.val_counts)
               better == train.best = NoModel \/ accuracy > train.best_metric
           IN  train' = [train EXCEPT
                   !.model = m,
                   !.checkpoints = Append(@, m),
                   !.best = IF better THEN m ELSE @,
                   !.best_metric = IF better THEN accuracy ELSE @,
                   !.stale = IF better THEN 0 ELSE @ + 1]
    /\ UNCHANGED disk

(* the parameters in memory when train() returns, without the reload *)
FinalParameters(tr, last) == last

(* load_best_model_at_end=True: the best checkpoint if there is one *)
ModelAtEnd(tr, last) == IF tr.best # NoModel THEN tr.best ELSE last

(* 8. trainer.train() returns: the last steps have moved the parameters *)
(* once more, then the best checkpoint is loaded                        *)
TrainModel ==
    /\ \/ TrainStep("initialized", "trained")
       \/ TrainStep("training", "trained")
    /\ \E w \in [1..train.model.out_dim -> WeightVals] :
           LET last == [train.model EXCEPT !.W = w]
           IN  train' = [train EXCEPT !.last = last, !.model = ModelAtEnd(train, last)]
    /\ UNCHANGED disk

(* 9. trainer.evaluate() *)
Evaluate ==
    /\ TrainStep("trained", "evaluated")
    /\ train' = [train EXCEPT !.eval_accuracy = Accuracy(train.model, train.val_counts)]
    /\ UNCHANGED disk

(* 10. trainer.save_model(): weights, and the tokenizer handed to Trainer *)
SaveModel ==
    /\ TrainStep("evaluated", "model saved")
    /\ disk' = [disk EXCEPT !.model = train.model, !.tokenizer = "ok"]
    /\ UNCHANGED train

(* tokenizer.save_pretrained(OUTPUT_DIR) *)
SaveTokenizer ==
    /\ TrainStep("model saved", "tokenizer saved")
    /\ disk' = [disk EXCEPT !.tokenizer = "ok"]
    /\ UNCHANGED train

(* 11. save_model_info(OUTPUT_DIR, label_to_id, id_to_label) *)
SaveInfo ==
    /\ TrainStep("tokenizer saved", "info saved")
    /\ disk' = WriteModelInfo(disk, train.label_to_id, train.id_to_label)
    /\ UNCHANGED train

(* 12. and 13. the classification report and the three test predictions *)
Report ==
    /\ TrainStep("info saved", "done")
    /\ UNCHANGED <<disk, train>>

(* an exception in the step at hand: main prints it and raises it again; *)
(* nothing is removed from the output directory                          *)
Abort ==
    /\ tpc \in {"loaded", "preprocessed", "split", "initialized", "training", "trained",
                "evaluated",
                "model saved", "tokenizer saved", "info saved"}
    /\ tpc' = "aborted"
    /\ train' = [train EXCEPT !.raised = "Exception"]
    /\ NoCall
    /\ UNCHANGED <<disk, pstate, self, initTrace, corpus, files, appVars, concVars, uiVars>>

InitTrain ==
    /\ disk \in OutputDirectories
    /\ pstate = "Unloaded"
    /\ self = NoSelf
    /\ initTrace = <<>>
    /\ op = "none"
    /\ arg = NoValue
    /\ ret = NoValue
    /\ raised = NoException
    /\ tokCalls = 0
    /\ fwdCalls = 0
    /\ NoPage /\ NoCallers /\ NoBrowser
    /\ files = <<>>
    /\ corpus \in TrainCorpora
    /\ tpc = "loaded"
    /\ train = NoTrain

NextTrain ==
    \/ Preprocess
    \/ Split
    \/ InitializeModel
    \/ Checkpoint
    \/ TrainModel
    \/ Evaluate
    \/ SaveModel
    \/ SaveTokenizer
    \/ SaveInfo
    \/ Report
    \/ Abort

SpecTrain == InitTrain /\ [][NextTrain]_vars

---------------------------------------------------------------------------
(* SpecData: load_and_combine_data on up to MaxFiles CSV files, followed   *)
(* by preprocess_data on the combined frame                                *)

MaxFiles == 2       \* most CSV files handed to load_and_combine_data

(* the encodings list of line 119, in its order *)
encodings == <<"utf-8", "utf-8-sig", "cp949", "euc-kr">>

(* the sets of encodings a file's bytes decode under: UTF-8 text, CP949    *)
(* text, plain ASCII, and bytes no encoding of the list decodes            *)
DecodeSets ==
    {{"utf-8", "utf-8-sig"}, {"cp949", "euc-kr"},
     {"utf-8", "utf-8-sig", "cp949", "euc-kr"}, {}}

(* a CSV file: whether it exists, what decodes it, its header and its one  *)
(* data row; read is the encoding it was read with, or "skipped"           *)
CsvFile(exists, decodes, columns, rows) ==
    [exists |-> exists, decodes |-> decodes, columns |-> columns, rows |-> rows,
     read |-> "unread"]

CsvFiles ==
    {CsvFile(FALSE, {}, {}, <<>>)}
    \cup {CsvFile(TRUE, d, {"memo", "tag"}, <<Row(PyStr(<<"m">>), PyStr(<<"a">>))>>) :
             d \in DecodeSets}
    \cup {CsvFile(TRUE, d, {"memo"}, <<Row(PyStr(<<"m">>), PyNone)>>) : d \in DecodeSets}
    \cup {CsvFile(TRUE, d, {"tag"}, <<Row(PyNone, PyStr(<<"a">>))>>) : d \in DecodeSets}

(* the for loop over encodings: the first one pd.read_csv does not answer *)
(* with UnicodeDecodeError, or "skipped" when df stays None or the file   *)
(* is not found                                                           *)
ReadCsv(f) ==
    IF ~f.exists THEN "skipped"
    ELSE LET ok == {i \in 1..Len(encodings) : encodings[i] \in f.decodes}
         IN  IF ok = {} THEN "skipped"
             ELSE encodings[CHOOSE i \in ok : \A j \in ok : i <= j]

(* a concatenation that keeps the columns common to all frames *)
ConcatInner(fs) ==
    LET read == SelectSeq(fs, LAMBDA f : f.read # "skipped")
    IN  {c \in {"memo", "tag"} : \A i \in 1..Len(read) : c \in read[i].columns}

(* pd.concat(dataframes, ignore_index=True): the columns of the result *)
ConcatColumns(fs) ==
    LET read == SelectSeq(fs, LAMBDA f : f.read # "skipped")
    IN  UNION {read[i].columns : i \in 1..Len(read)}

(* pd.concat(dataframes, ignore_index=True): the rows of the result, a *)
(* cell of a column a frame does not have being NaN                    *)
RECURSIVE ConcatRows(_)
ConcatRows(fs) ==
    IF fs = <<>> THEN <<>>
    ELSE (IF Head(fs).read = "skipped" THEN <<>> ELSE Head(fs).rows) \o ConcatRows(Tail(fs))

(* load_and_combine_data(file_paths) *)
LoadAndCombineData(fs) ==
    LET tried == [i \in 1..Len(fs) |-> [fs[i] EXCEPT !.read = ReadCsv(fs[i])]]
        dataframes == SelectSeq(tried, LAMBDA f : f.read # "skipped")
    IN  IF dataframes = <<>>
        THEN [raised |-> "ValueError", files |-> tried, df |-> DataFrame({}, <<>>)]
        ELSE [raised |-> NoException, files |-> tried,
              df |-> DataFrame(ConcatColumns(tried), ConcatRows(tried))]

(* 2. df = load_and_combine_data(csv_files) *)
LoadData ==
    /\ tpc = "start"
    /\ LET r == LoadAndCombineData(files)
       IN  /\ files' = r.files
           /\ corpus' = r.df
           /\ train' = [train EXCEPT !.raised = r.raised]
           /\ tpc' = IF r.raised = NoException THEN "loaded" ELSE "aborted"
    /\ NoCall
    /\ UNCHANGED <<disk, pstate, self, initTrace, appVars, concVars, uiVars>>

InitData ==
    /\ disk = EmptyDirectory
    /\ pstate = "Unloaded"
    /\ self = NoSelf
    /\ initTrace = <<>>
    /\ op = "none"
    /\ arg = NoValue
    /\ ret = NoValue
    /\ raised = NoException
    /\ tokCalls = 0
    /\ fwdCalls = 0
    /\ NoPage /\ NoCallers /\ NoBrowser
    /\ files \in SeqsUpTo(CsvFiles, MaxFiles)
    /\ corpus = DataFrame({}, <<>>)
    /\ tpc = "start"
    /\ train = NoTrain

NextData ==
    \/ LoadData
    \/ Preprocess

SpecData == InitData /\ [][NextData]_vars

---------------------------------------------------------------------------
(* SpecRound: the result predict builds once the forward pass has given    *)
(* the probabilities, for every probability of the grid that a two-label   *)
(* model can give its predicted class (one half or more)                   *)

(* lines 144-159: label, confidence, band and probabilities of the result, *)
(* for a model that gives class 0 the probability held in arg              *)
BuildResult ==
    /\ pstate = "Ready"
    /\ op = "none"
    /\ 2 * arg >= PScale
    /\ LET probabilities == <<arg, PScale - arg>>
           predicted_class_id == ArgMax(probabilities)
           predicted_pattern == self.id_to_label[predicted_class_id]
           confidence == probabilities[predicted_class_id + 1]
       IN  ret' = Result(predicted_pattern, Round3(confidence),
                         GetConfidenceLevel(confidence),
                         GetPatternDescription(self, predicted_pattern),
                         AllProbabilities(self, probabilities))
    /\ op' = "predict:result"
    /\ raised' = NoException
    /\ tokCalls' = 1
    /\ fwdCalls' = 1
    /\ UNCHANGED <<disk, pstate, self, initTrace, arg>>
    /\ UNCHANGED <<appVars, concVars, trainVars, uiVars>>

NextRound == BuildResult

SpecRound == InitLevel /\ [][NextRound]_vars

---------------------------------------------------------------------------
(* SpecBest: one whole training run on a corpus that can be stratified with *)
(* two labels, ten rows tagged "a" and five tagged "b": the validation part *)
(* holds two rows of the first label and one of the second, so the          *)
(* checkpoints of the run differ in validation accuracy.                    *)

BestCorpus ==
    DataFrame({"memo", "tag"},
              [i \in 1..15 |-> Row(PyStr(<<"m">>),
                                    IF i <= 10 THEN PyStr(<<"a">>) ELSE PyStr(<<"b">>))])

InitBest ==
    /\ disk = EmptyDirectory
    /\ pstate = "Unloaded"
    /\ self = NoSelf
    /\ initTrace = <<>>
    /\ op = "none"
    /\ arg = NoValue
    /\ ret = NoValue
    /\ raised = NoException
    /\ tokCalls = 0
    /\ fwdCalls = 0
    /\ NoPage /\ NoCallers /\ NoBrowser
    /\ files = <<>>
    /\ corpus = BestCorpus
    /\ tpc = "loaded"
    /\ train = NoTrain

NextBest ==
    \/ Preprocess
    \/ Split
    \/ InitializeModel
    \/ Checkpoint
    \/ TrainModel
    \/ Evaluate
    \/ SaveModel
    \/ SaveTokenizer
    \/ SaveInfo
    \/ Report

SpecBest == InitBest /\ [][NextBest]_vars

---------------------------------------------------------------------------
(* SpecTrade: the dashboard page of a logged-in user. st.session_state is  *)
(* a dictionary, here a function from the keys it holds to their values;   *)
(* execute_trade is called with the stock, the action and the quantity the *)
(* widgets give and the current price of the stock.                        *)

MaxTrades == 3      \* most rows of the trade history of one session

Stocks == {"s1", "s2"}
Actions == {"buy", "sell"}          \* the two entries of the action selectbox
Quantities == {1, 1000}             \* number_input(min_value=1, max_value=10000)
Prices == {1, 30000}

InitialCash == 50000000

(* a dictionary with key k set to v, whether or not it had the key *)
SetKey(d, k, v) == [x \in DOMAIN d \cup {k} |-> IF x = k THEN v ELSE d[x]]

(* del d[k] *)
DelKey(d, k) == [x \in DOMAIN d \ {k} |-> d[x]]

(* initialize_dashboard_session: the keys the session lacks get their *)
(* starting values                                                     *)
InitializeDashboardSession(ss) ==
    LET with_cash == IF "cash" \in DOMAIN ss THEN ss ELSE SetKey(ss, "cash", InitialCash)
        with_portfolio == IF "portfolio" \in DOMAIN with_cash THEN with_cash
                          ELSE SetKey(with_cash, "portfolio", EmptyMap)
        with_history == IF "history" \in DOMAIN with_portfolio THEN with_portfolio
                        ELSE SetKey(with_portfolio, "history", <<>>)
        with_market == IF "market_data" \in DOMAIN with_history THEN with_history
                       ELSE SetKey(with_history, "market_data", "current market data")
        with_chart == IF "chart_data" \in DOMAIN with_market THEN with_market
                      ELSE SetKey(with_market, "chart_data", "thirty points")
    IN  IF "last_price_update" \in DOMAIN with_chart THEN with_chart
        ELSE SetKey(with_chart, "last_price_update", "now")

(* the row execute_trade adds to history *)
NewTrade(stock_name, action, quantity, price) ==
    [stock_name |-> stock_name, action |-> action, quantity |-> quantity,
     price |-> price, amount |-> quantity * price]

(* a sell that tests only that the stock is in the portfolio *)
HeldAtAll(portfolio, stock_name, quantity) == stock_name \in DOMAIN portfolio

(* the test of line 117 *)
Held(portfolio, stock_name, quantity) ==
    /\ stock_name \in DOMAIN portfolio
    /\ portfolio[stock_name].shares >= quantity

(* a history that takes no new row *)
ConcatNothing(history, new_trade) == history

(* pd.concat([history, new_trade], ignore_index=True) *)
ConcatTrade(history, new_trade) == Append(history, new_trade)

(* execute_trade: the session state after the call and the value returned *)
execute_trade(ss, stock_name, action, quantity, price) ==
    LET total_amount == quantity * price
        portfolio == ss["portfolio"]
        new_trade == NewTrade(stock_name, action, quantity, price)
        history == ConcatTrade(ss["history"], new_trade)
    IN  IF action = "buy"
        THEN IF ss["cash"] >= total_amount
             THEN LET holding ==
                          IF stock_name \in DOMAIN portfolio
                          THEN LET existing_shares == portfolio[stock_name].shares
                                   existing_avg_price == portfolio[stock_name].avg_price
                                   new_total_shares == existing_shares + quantity
                               IN  [shares |-> new_total_shares,
                                    avg_price |->
                                        (existing_shares * existing_avg_price
                                             + quantity * price) \div new_total_shares]
                          ELSE [shares |-> quantity, avg_price |-> price]
                  IN  [ss |-> [ss EXCEPT !["cash"] = @ - total_amount,
                                         !["portfolio"] = SetKey(@, stock_name, holding),
                                         !["history"] = history],
                       ret |-> TRUE]
             ELSE [ss |-> ss, ret |-> FALSE]
        ELSE IF Held(portfolio, stock_name, quantity)
             THEN LET shares == portfolio[stock_name].shares - quantity
                      sold == [portfolio EXCEPT ![stock_name].shares = shares]
                  IN  [ss |-> [ss EXCEPT !["cash"] = @ + total_amount,
                                         !["portfolio"] =
                                             IF shares = 0 THEN DelKey(sold, stock_name)
                                             ELSE sold,
                                         !["history"] = history],
                       ret |-> TRUE]
             ELSE [ss |-> ss, ret |-> FALSE]

(* a click on the buy or the sell button of show_trading_interface *)
ExecuteTrade ==
    /\ page = "dashboard"
    /\ Len(sstate["history"]) < MaxTrades
    /\ \E stock_name \in Stocks, action \in Actions, quantity \in Quantities,
          price \in Prices :
           LET r == execute_trade(sstate, stock_name, action, quantity, price)
           IN  /\ sstate' = r.ss
               /\ ret' = r.ret
               /\ arg' = [stock_name |-> stock_name, action |-> action,
                          quantity |-> quantity, price |-> price]
    /\ op' = "execute_trade"
    /\ UNCHANGED <<disk, pstate, self, initTrace, raised, tokCalls, fwdCalls,
                   appVars, concVars, trainVars, page>>

InitTrade ==
    /\ disk = EmptyDirectory
    /\ pstate = "Unloaded"
    /\ self = NoSelf
    /\ initTrace = <<>>
    /\ op = "none"
    /\ arg = NoValue
    /\ ret = NoValue
    /\ raised = NoException
    /\ tokCalls = 0
    /\ fwdCalls = 0
    /\ NoPage /\ NoCallers /\ NoTraining
    /\ sstate = InitializeDashboardSession([k \in {"current_user"} |-> "u1"])
    /\ page = "dashboard"

NextTrade == ExecuteTrade

SpecTrade == InitTrade /\ [][NextTrade]_vars

---------------------------------------------------------------------------
(* SpecSession: one browser session through which users log in, move       *)
(* between the pages, hand a trade to the AI coaching page, and switch     *)
(* user or log out. Every user is of the established type, for whom        *)
(* login_user asks for no onboarding, and has one past trade.              *)

MaxNotes == 1       \* most review notes kept in the session

Users == {"u1", "u2"}

(* current_user = None *)
NoUser == "None"

(* the row of the user's trade data the review page hands on *)
TradeOf(u) == [owner |-> u, memo |-> "memo"]
NoTradeShown == [owner |-> NoUser, memo |-> ""]

(* keys_to_clear of SimpleAuthManager.logout *)
LogoutKeys == {"selected_principle", "selected_trade_for_review",
               "cash", "portfolio", "history", "market_data", "chart_data"}

(* keys_to_clear of the pages' show_user_switcher_sidebar *)
SwitchKeys == {"current_user", "onboarding_needed"} \cup LogoutKeys

(* for key in keys_to_clear: if key in st.session_state: del ... *)
ClearKeys(ss, keys) == [k \in DOMAIN ss \ keys |-> ss[k]]

(* SimpleAuthManager.init_session_state *)
InitSessionState(ss) ==
    IF "current_user" \notin DOMAIN ss THEN SetKey(ss, "current_user", NoUser) ELSE ss

LoggedIn == "current_user" \in DOMAIN sstate /\ sstate["current_user"] # NoUser

(* what main of the coaching page displays to whom: the trade handed over *)
(* if the session holds one                                               *)
Shown(ss) ==
    [viewer |-> ss["current_user"],
     trade |-> IF "ai_analysis_trade" \in DOMAIN ss THEN ss["ai_analysis_trade"]
               ELSE NoTradeShown]

(* a step of the session that leaves everything but the browser alone *)
SessionStep(name) ==
    /\ op' = name
    /\ arg' = NoValue
    /\ ret' = IF page' = "coaching" THEN Shown(sstate') ELSE NoValue
    /\ UNCHANGED <<disk, pstate, self, initTrace, raised, tokCalls, fwdCalls,
                   appVars, concVars, trainVars>>

(* main_app: a click on a user's login button *)
LoginUser ==
    /\ page = "main"
    /\ ~LoggedIn
    /\ \E u \in Users :
           sstate' = SetKey(SetKey(sstate, "current_user", u), "onboarding_needed", NoUser)
    /\ page' = "main"
    /\ SessionStep("login_user")

(* main_app: the switch-user button of the sidebar *)
Logout ==
    /\ page = "main"
    /\ LoggedIn
    /\ sstate' = ClearKeys([sstate EXCEPT !["current_user"] = NoUser,
                                          !["onboarding_needed"] = NoUser], LogoutKeys)
    /\ page' = "main"
    /\ SessionStep("logout")

(* a page's switch-user button: the keys are deleted and main_app runs *)
SwitchUser ==
    /\ page \in {"dashboard", "review", "coaching"}
    /\ LoggedIn
    /\ sstate' = InitSessionState(ClearKeys(sstate, SwitchKeys))
    /\ page' = "main"
    /\ SessionStep("switch user")

(* navigation to the dashboard, which runs initialize_dashboard_session *)
OpenDashboard ==
    /\ LoggedIn
    /\ page # "dashboard"
    /\ sstate' = InitializeDashboardSession(sstate)
    /\ page' = "dashboard"
    /\ SessionStep("open dashboard")

(* navigation to the trade review page *)
OpenReview ==
    /\ LoggedIn
    /\ page # "review"
    /\ page' = "review"
    /\ UNCHANGED sstate
    /\ SessionStep("open review")

(* navigation to the AI coaching page, which runs its main *)
OpenCoaching ==
    /\ LoggedIn
    /\ page # "coaching"
    /\ page' = "coaching"
    /\ UNCHANGED sstate
    /\ SessionStep("open coaching")

TradeSelected ==
    /\ "selected_trade_for_review" \in DOMAIN sstate
    /\ sstate["selected_trade_for_review"] # NoTradeShown

(* show_trade_selection: the review button of a trade of the current user *)
SelectTrade ==
    /\ page = "review"
    /\ LoggedIn
    /\ ~TradeSelected
    /\ sstate' = SetKey(sstate, "selected_trade_for_review", TradeOf(sstate["current_user"]))
    /\ page' = "review"
    /\ SessionStep("select trade")

(* show_trade_review: back to the list *)
BackToList ==
    /\ page = "review"
    /\ LoggedIn
    /\ TradeSelected
    /\ sstate' = SetKey(sstate, "selected_trade_for_review", NoTradeShown)
    /\ page' = "review"
    /\ SessionStep("back to list")

(* show_trade_review: the save button appends a note for the trade *)
SaveReviewNote ==
    /\ page = "review"
    /\ LoggedIn
    /\ TradeSelected
    /\ LET notes == IF "review_notes" \in DOMAIN sstate THEN sstate["review_notes"]
                    ELSE <<>>
       IN  /\ Len(notes) < MaxNotes
           /\ sstate' = SetKey(sstate, "review_notes",
                               Append(notes, sstate["selected_trade_for_review"]))
    /\ page' = "review"
    /\ SessionStep("save review note")

(* show_trade_review: the AI analysis button hands the trade to the *)
(* coaching page and switches to it                                 *)
RequestAIAnalysis ==
    /\ page = "review"
    /\ LoggedIn
    /\ TradeSelected
    /\ sstate' = SetKey(sstate, "ai_analysis_trade", sstate["selected_trade_for_review"])
    /\ page' = "coaching"
    /\ SessionStep("request AI analysis")

(* coaching page: the analysis-done button removes the trade *)
FinishAnalysis ==
    /\ page = "coaching"
    /\ LoggedIn
    /\ "ai_analysis_trade" \in DOMAIN sstate
    /\ sstate' = DelKey(sstate, "ai_analysis_trade")
    /\ page' = "coaching"
    /\ SessionStep("analysis done")

InitSession ==
    /\ disk = EmptyDirectory
    /\ pstate = "Unloaded"
    /\ self = NoSelf
    /\ initTrace = <<>>
    /\ op = "none"
    /\ arg = NoValue
    /\ ret = NoValue
    /\ raised = NoException
    /\ tokCalls = 0
    /\ fwdCalls = 0
    /\ NoPage /\ NoCallers /\ NoTraining
    /\ sstate = InitSessionState(EmptyMap)
    /\ page = "main"

NextSession ==
    \/ LoginUser
    \/ Logout
    \/ SwitchUser
    \/ OpenDashboard
    \/ OpenReview
    \/ OpenCoaching
    \/ SelectTrade
    \/ BackToList
    \/ SaveReviewNote
    \/ RequestAIAnalysis
    \/ FinishAnalysis

SpecSession == InitSession /\ [][NextSession]_vars

---------------------------------------------------------------------------
(* Properties *)

ResultFields == {"pattern", "confidence", "confidence_level", "description",
                 "all_probabilities"}

IsBlank(c) == \A i \in 1..Len(c) : c[i] = WS

(* a str that is not blank and that the tokenizer can encode *)
ValidText(x) ==
    /\ x.kind = "str"
    /\ ~IsBlank(x.chars)
    /\ \A i \in 1..Len(x.chars) : x.chars[i] # LoneSurrogate

(* a result that reports class probabilities: neither the sentinel nor the *)
(* error result, whose all_probabilities are empty                        *)
NormalResult(r) == DOMAIN r.all_probabilities # {}

Injective(f) == \A a, b \in DOMAIN f : f[a] = f[b] => a = b

IsMaxKey(l, probs) ==
    /\ l \in DOMAIN probs
    /\ \A m \in DOMAIN probs : probs[m] <= probs[l]

(* C1: predict never raises: whatever value is passed, the call returns a      *)
(* result with the five fields, and a failure of the tokenizer or the forward  *)
(* pass comes back as the "error" result.                                      *)
C1_PredictNeverRaises ==
    op = "predict" =>
        /\ raised = NoException
        /\ DOMAIN ret = ResultFields
        /\ (arg.kind = "str" /\ \E i \in 1..Len(arg.chars) : arg.chars[i] = LoneSurrogate) =>
               /\ ret.pattern = "error"
               /\ ret.description = "error during analysis: " \o Tokenize(arg.chars).msg

(* C2: for a text that is empty or all whitespace, predict returns the         *)
(* "unanalyzable" sentinel (confidence 0, band "none", no probabilities)       *)
(* and calls neither the tokenizer nor the model.                              *)
C2_BlankTextGivesSentinel ==
    (op = "predict" /\ arg.kind = "str" /\ IsBlank(arg.chars)) =>
        /\ raised = NoException
        /\ ret.pattern = "unanalyzable"
        /\ ret.confidence = 0
        /\ ret.confidence_level = "none"
        /\ DOMAIN ret.all_probabilities = {}
        /\ tokCalls = 0
        /\ fwdCalls = 0

C2_Witness ==
    /\ op = "predict"
    /\ arg = PyStr(<<WS, WS>>)
    /\ ret.pattern = "unanalyzable"

(* C3: the band follows the confidence by fixed thresholds: at least 0.90 is   *)
(* "very high", at least 0.70 "high", at least 0.50 "medium", below "low";     *)
(* 0.90, 0.70 and 0.50 fall in the upper band, 0.8999, 0.6999, 0.4999 in the   *)
(* lower one.                                                                  *)
C3_BandThresholds ==
    op = "_get_confidence_level" =>
        /\ (100 * arg >= 90 * PScale) => ret = "very high"
        /\ (100 * arg >= 70 * PScale /\ 100 * arg < 90 * PScale) => ret = "high"
        /\ (100 * arg >= 50 * PScale /\ 100 * arg < 70 * PScale) => ret = "medium"
        /\ (100 * arg < 50 * PScale) => ret = "low"
        /\ (10000 * arg = 8999 * PScale) => ret = "high"
        /\ (10000 * arg = 6999 * PScale) => ret = "medium"
        /\ (10000 * arg = 4999 * PScale) => ret = "low"

C3_Witness ==
    /\ op = "_get_confidence_level"
    /\ 10 * arg = 9 * PScale
    /\ ret = "very high"

(* C4 as stated: for every input the reported label is the key with the        *)
(* largest value in all_probabilities, the sentinel and error results included *)
C4_LabelIsArgmaxOfEveryResult ==
    (op = "predict" /\ raised = NoException) =>
        IsMaxKey(ret.pattern, ret.all_probabilities)

(* C4: in every result that reports probabilities, from a predictor whose      *)
(* id_to_label gives distinct indices distinct labels, the reported label is a *)
(* key holding the largest value of all_probabilities, also when classes tie.  *)
C4_LabelIsArgmaxOfNormalResult ==
    (op = "predict" /\ raised = NoException /\ NormalResult(ret)
        /\ Injective(self.id_to_label)) =>
        IsMaxKey(ret.pattern, ret.all_probabilities)

C4_Witness ==
    /\ op = "predict"
    /\ raised = NoException
    /\ NormalResult(ret)
    /\ Injective(self.id_to_label)
    /\ \E l \in DOMAIN ret.all_probabilities :
           /\ l # ret.pattern
           /\ ret.all_probabilities[l] = ret.all_probabilities[ret.pattern]
    /\ \E l \in DOMAIN ret.all_probabilities :
           ret.all_probabilities[l] < ret.all_probabilities[ret.pattern]

(* C5: for every valid non-empty text, all_probabilities has exactly           *)
(* num_labels entries and its values sum to 1 within a tolerance of 0.001.     *)
C5_ProbabilitiesCoverAllLabels ==
    (op = "predict" /\ ValidText(arg)) =>
        /\ raised = NoException
        /\ Cardinality(DOMAIN ret.all_probabilities) = self.num_labels
        /\ SumOver(ret.all_probabilities) >= PScale - PScale \div 1000
        /\ SumOver(ret.all_probabilities) <= PScale + PScale \div 1000

(* C6: predict_batch returns a list as long as texts whose i-th element is     *)
(* the result predict gives for texts[i] alone.                                *)
C6_BatchIsElementwisePredict ==
    (op = "predict_batch"
        /\ \A i \in 1..Len(arg) : PredictOutcome(self, arg[i]).raised = NoException) =>
        /\ raised = NoException
        /\ Len(ret) = Len(arg)
        /\ \A i \in 1..Len(arg) : ret[i] = PredictOutcome(self, arg[i]).ret

C6_Witness ==
    /\ op = "predict_batch"
    /\ raised = NoException
    /\ Len(arg) = MaxBatch
    /\ ret[1].pattern = "unanalyzable"
    /\ NormalResult(ret[MaxBatch])

(* C7: no predict or predict_batch call changes the loaded model, the label    *)
(* mapping or the description table, whatever result it ends in; so a predict  *)
(* call, after any calls before it, returns what the predictor returned for    *)
(* that text when it was just loaded.                                          *)
C7_CallsLeavePredictorUnchanged ==
    [][(op' \in {"predict", "predict_batch"}) =>
          /\ self' = self
          /\ disk' = disk
          /\ (op' = "predict" =>
                 LET fresh == PredictOutcome(InitOutcome(disk).fields, arg')
                 IN  ret' = fresh.ret /\ raised' = fresh.raised)]_vars

C7_Witness ==
    /\ op = "predict_batch"
    /\ raised = NoException
    /\ Len(arg) = MaxBatch
    /\ ret[1].pattern = "error"
    /\ NormalResult(ret[MaxBatch])
    /\ self = InitOutcome(disk).fields

(* C8: construction validates the metadata: a predictor is only produced when  *)
(* num_labels, the size of label_to_id and the size of id_to_label agree.      *)
C8_LoadValidatesMetadata ==
    pstate = "Ready" =>
        /\ disk.num_labels = Cardinality(DOMAIN disk.label_to_id)
        /\ disk.num_labels = Cardinality(DOMAIN disk.id_to_label)

(* C9: a predictor whose model has more or fewer outputs than its mapping has  *)
(* labels never answers predict with a result that reports probabilities.      *)
C9_MismatchNeverAnswersNormally ==
    (op = "predict" /\ raised = NoException
        /\ self.model.out_dim # Cardinality(DOMAIN self.id_to_label)) =>
        ~NormalResult(ret)

(* C10: with the metadata file missing or unparseable, construction fails with *)
(* an exception before the tokenizer or the model is loaded, and there is no   *)
(* instance that answers predict.                                              *)
C10_BrokenMetadataFailsFast ==
    (disk.meta # "ok" /\ pstate # "Unloaded") =>
        /\ pstate = "Failed"
        /\ raised \in {"FileNotFoundError", "JSONDecodeError"}
        /\ initTrace = <<>>
        /\ self = NoSelf
        /\ op = "__init__"

C10_Witness ==
    /\ pstate = "Failed"
    /\ disk.meta = "unparseable"
    /\ raised = "JSONDecodeError"


(* the kind of object a handle state stands for *)
KindOf(st) == IF st = "Ready" THEN "SentimentPredictor" ELSE "DummyPredictor"

(* C11: the predictor handle moves Unloaded -> Loading -> Ready or Failed,  *)
(* and Ready and Failed are terminal: once load_sentiment_model has         *)
(* returned a predictor (or the stand-in), no later page run of any session *)
(* gets the other kind, whatever happens to the artifact directory.         *)
C11_HandleStateMachine ==
    [][/\ pstate = "Unloaded" => pstate' \in {"Unloaded", "Loading"}
       /\ pstate = "Loading" => pstate' \in {"Loading", "Ready", "Failed"}
       /\ pstate \in {"Ready", "Failed"} =>
              /\ pstate' = pstate
              /\ cache'.value = cache.value
       /\ \A s \in Sessions :
              sessions'[s].handle # NoHandle =>
                  /\ pstate' \in {"Ready", "Failed"}
                  /\ sessions'[s].handle.kind = KindOf(pstate')]_vars

(* a later page run still holds the stand-in although the directory now *)
(* holds a loadable artifact                                            *)
C11_Witness ==
    /\ pstate = "Failed"
    /\ InitOutcome(disk).raised = NoException
    /\ op = "page:predict"
    /\ \E s \in Sessions :
           /\ sessions[s].pc = "has"
           /\ sessions[s].handle.kind = "DummyPredictor"

(* C12: over all page runs of all sessions, also concurrent ones, the     *)
(* constructor of SentimentPredictor runs at most once and every caller   *)
(* of load_sentiment_model receives the one cached object.                *)
C12_LoadedOncePerProcess ==
    /\ ctorRuns <= 1
    /\ \A s \in Sessions :
           sessions[s].handle # NoHandle => sessions[s].handle = cache.value

(* two sessions missed the cache together; one has loaded, the other is *)
(* about to take the lock                                               *)
C12_Witness ==
    /\ ctorRuns = 1
    /\ \E s, t \in Sessions :
           /\ sessions[s].pc = "has"
           /\ sessions[t].pc = "miss"

(* a result with the fields and the internal consistency of a result of a *)
(* loaded model                                                           *)
LooksLikeModelResult(r) ==
    /\ DOMAIN r = ResultFields
    /\ NormalResult(r)
    /\ IsMaxKey(r.pattern, r.all_probabilities)
    /\ r.confidence = r.all_probabilities[r.pattern]
    /\ r.confidence_level = GetConfidenceLevel(r.confidence)
    /\ SumOver(r.all_probabilities) = PScale

(* C13: a failed load is never passed off as a loaded model: a result of  *)
(* the stand-in is recognisable by its fields as a placeholder, and the   *)
(* model information shown for the stand-in does not say "loaded".        *)
C13_StandInIsFlagged ==
    /\ (op = "page:predict" /\ pstate = "Failed") => ~LooksLikeModelResult(ret)
    /\ (op = "page:model_info" /\ arg.kind = "DummyPredictor") =>
           ret.status # "load complete"

(* C14: predict and predict_batch calls that run concurrently on a Ready   *)
(* predictor write no shared state: in every interleaving of their steps   *)
(* the instance stays as loaded and each call returns what it returns when *)
(* run alone.                                                              *)
C14_ConcurrentCallsIndependent ==
    /\ self = InitOutcome(disk).fields
    /\ \A c \in Callers :
           callers[c].pc = "returned" =>
               IF callers[c].kind = "predict"
               THEN callers[c].results = <<PredictOutcome(self, callers[c].texts[1]).ret>>
               ELSE callers[c].results = BatchLoop(self, callers[c].texts, <<>>, 0, 0).ret

(* a call has returned a model result while the other caller, in the       *)
(* middle of a batch, had tokenized a different text since                 *)
C14_Witness ==
    \E c, d \in Callers :
        /\ c # d
        /\ callers[c].pc = "returned"
        /\ callers[c].results # <<>>
        /\ NormalResult(callers[c].results[Len(callers[c].results)])
        /\ callers[d].pc = "tokenized"
        /\ callers[d].kind = "predict_batch"
        /\ callers[d].results # <<>>
        /\ callers[d].inputs # Tokenize(callers[c].texts[Len(callers[c].texts)].chars)

(* a row whose memo and tag are both present and non-empty after trimming *)
ValidRow(r) ==
    /\ r.memo.kind = "str" /\ r.tag.kind = "str"
    /\ \E i \in 1..Len(r.memo.chars) : r.memo.chars[i] # WS
    /\ \E i \in 1..Len(r.tag.chars) : r.tag.chars[i] # WS

(* the rows of the corpus that are valid, in their order *)
ValidRows == SelectSeq(corpus.rows, ValidRow)

(* the characters of a tag other than the marker, in their order *)
WithoutMarker(c) == SelectSeq(c, LAMBDA ch : ch # Marker)

(* the distinct normalized tags of the valid rows *)
NormalizedTags == {WithoutMarker(ValidRows[i].tag.chars) : i \in 1..Len(ValidRows)}

Preprocessed == tpc \in {"preprocessed", "saved"}

(* C16: the mapping preprocess_data produces and save_model_info persists  *)
(* is a bijection between 0..num_labels-1 and the distinct normalized tags *)
(* of the cleaned corpus: label_to_id and id_to_label are mutual inverses, *)
(* the indices are dense, num_labels is the number of distinct tags.       *)
C16_LabelMappingIsBijection ==
    Preprocessed =>
        LET n == Cardinality(NormalizedTags)
            l2i == train.label_to_id
            i2l == train.id_to_label
        IN  /\ DOMAIN l2i = {TagStr(t) : t \in NormalizedTags}
            /\ DOMAIN i2l = 0..(n - 1)
            /\ \A l \in DOMAIN l2i : l2i[l] \in DOMAIN i2l /\ i2l[l2i[l]] = l
            /\ \A i \in DOMAIN i2l : i2l[i] \in DOMAIN l2i /\ l2i[i2l[i]] = i
            /\ tpc = "saved" =>
                   /\ disk.num_labels = n
                   /\ disk.label_to_id = l2i
                   /\ DOMAIN disk.id_to_label = {StrOfInt(i) : i \in 0..(n - 1)}
                   /\ \A i \in 0..(n - 1) : disk.id_to_label[StrOfInt(i)] = i2l[i]

(* a saved mapping of two labels, from a corpus that names one of them twice *)
C16_Witness ==
    /\ tpc = "saved"
    /\ disk.num_labels = 2
    /\ Len(train.df) = 3

(* C17: the index of a label is its position in the sorted sequence of the *)
(* distinct normalized tags, so it depends on the set of tags only, not on *)
(* the order or the multiplicity of the rows.                              *)
C17_IndexIsSortedPosition ==
    Preprocessed =>
        \A t \in NormalizedTags :
            /\ TagStr(t) \in DOMAIN train.label_to_id
            /\ train.label_to_id[TagStr(t)] =
                   Cardinality({u \in NormalizedTags : StrLess(u, t)})

(* rows that name the larger tag first, and one tag twice *)
C17_Witness ==
    /\ Preprocessed
    /\ Len(train.df) = 3
    /\ StrLess(train.df[2].tag.chars, train.df[1].tag.chars)
    /\ train.df[3].tag = train.df[1].tag

C19_KeepsExactlyValidRows ==
    Preprocessed =>
        /\ Len(train.df) = Len(ValidRows)
        /\ \A i \in 1..Len(ValidRows) :
               /\ train.df[i].memo = ValidRows[i].memo
               /\ WithoutMarker(train.df[i].tag.chars) = WithoutMarker(ValidRows[i].tag.chars)

(* of three rows, one with a missing memo and one with a blank tag, one is kept *)
C19_Witness ==
    /\ Preprocessed
    /\ Len(corpus.rows) = 3
    /\ Len(train.df) = 1
    /\ \E i, j \in 1..3 :
           /\ corpus.rows[i].memo = PyNone
           /\ corpus.rows[j].tag = PyStr(<<WS>>)

(* C20, as stated: normalization removes a marker in first position and    *)
(* nothing else: a tag that does not start with '#' is unchanged, and the  *)
(* characters after the first position are kept for every tag.             *)
C20_RemovesLeadingMarkerOnly ==
    Preprocessed =>
        \A i \in 1..Len(ValidRows) :
            LET raw == ValidRows[i].tag.chars
            IN  train.df[i].tag.chars =
                    IF Head(raw) = Marker THEN Tail(raw) ELSE raw

(* C20, amended: normalization removes every '#' of the tag, wherever it   *)
(* stands, and nothing else: the other characters are kept in their order, *)
(* and a tag without '#' is unchanged.                                     *)
C20_RemovesEveryMarker ==
    Preprocessed =>
        \A i \in 1..Len(ValidRows) :
            LET raw == ValidRows[i].tag.chars
                tag == train.df[i].tag.chars
            IN  /\ \A k \in 1..Len(tag) : tag[k] # Marker
                /\ tag = WithoutMarker(raw)
                /\ (\A k \in 1..Len(raw) : raw[k] # Marker) => tag = raw

(* a kept row whose tag has the marker after its first character *)
C20_Witness ==
    /\ Preprocessed
    /\ \E i \in 1..Len(ValidRows) :
           /\ ValidRows[i].tag.chars = <<"a", Marker>>
           /\ train.df[i].tag.chars = <<"a">>

(* the directory holds weights, tokenizer and a label mapping that fit *)
(* each other                                                          *)
CompleteArtifact(d) ==
    /\ d.meta = "ok" /\ d.tokenizer = "ok" /\ d.model # NoModel
    /\ d.num_labels = d.model.out_dim
    /\ Cardinality(DOMAIN d.label_to_id) = d.num_labels
    /\ DOMAIN d.id_to_label = {StrOfInt(i) : i \in 0..(d.num_labels - 1)}
    /\ \A l \in DOMAIN d.label_to_id : d.id_to_label[StrOfInt(d.label_to_id[l])] = l

(* the directory holds no part of an artifact *)
NoArtifact(d) == d.meta = "missing" /\ d.tokenizer = "missing" /\ d.model = NoModel

(* C15: the artifact is published atomically: when main has ended,         *)
(* normally or by an exception at any step, the output directory holds a   *)
(* complete, mutually consistent set of weights, tokenizer and label       *)
(* mapping, or nothing of the artifact; never weights without a mapping or *)
(* with a stale one.                                                       *)
C15_ArtifactPublishedAtomically ==
    tpc \in {"done", "aborted"} => (CompleteArtifact(disk) \/ NoArtifact(disk))

(* C21: when no valid row is left after cleaning, the run fails in the     *)
(* cleaning stage itself: main never gets past preprocess_data, so no      *)
(* split, no model initialization, no training and no write takes place.   *)
C21_EmptyCorpusFailsInCleaning ==
    ValidRows = <<>> => tpc \in {"loaded", "aborted"}

(* the files load_and_combine_data has read into the corpus *)
LoadedFiles == SelectSeq(files, LAMBDA f : f.read \notin {"unread", "skipped"})

LoadedColumns == UNION {LoadedFiles[i].columns : i \in 1..Len(LoadedFiles)}

(* C22: when the memo column or the tag column is in none of the loaded    *)
(* files, the run fails with the column error before any row is cleaned;   *)
(* when each of the two columns is in at least one loaded file, the column *)
(* test passes.                                                            *)
C22_MissingColumnsFailBeforeCleaning ==
    (LoadedFiles # <<>> /\ tpc \notin {"start", "loaded"}) =>
        IF \E i \in 1..Len(required_columns) : required_columns[i] \notin LoadedColumns
        THEN /\ tpc = "aborted"
             /\ train.raised = "ValueError"
             /\ train.df = <<>>
             /\ train.label_to_id = EmptyMap
        ELSE tpc = "preprocessed"

(* two loaded files, one with the memo column only and one with the tag *)
(* column only: the test has passed                                     *)
C22_Witness ==
    /\ tpc = "preprocessed"
    /\ Len(LoadedFiles) = 2
    /\ LoadedFiles[1].columns = {"memo"}
    /\ LoadedFiles[2].columns = {"tag"}

(* C24: each file is read with the first of utf-8, utf-8-sig, cp949,       *)
(* euc-kr that parses it; loading fails only if no encoding parses a file, *)
(* and a file that no encoding parses is not left out of the corpus        *)
(* without a failure.                                                      *)
C24_EncodingFallback ==
    tpc # "start" =>
        \A i \in 1..Len(files) :
            /\ (files[i].exists /\ files[i].decodes # {}) =>
                   /\ files[i].read \in files[i].decodes
                   /\ \A j, k \in 1..Len(encodings) :
                          (encodings[k] = files[i].read /\ j < k) =>
                              encodings[j] \notin files[i].decodes
            /\ (files[i].exists /\ files[i].decodes = {}) => tpc = "aborted"

Bands == {"very high", "high", "medium", "low"}

(* C23, as stated: every result of predict, the sentinel and the error     *)
(* result included, has a confidence in [0,1] and one of the four bands    *)
(* very high, high, medium, low.                                           *)
C23_EveryResultHasOneOfFourBands ==
    (op = "predict" /\ raised = NoException) =>
        /\ ret.confidence \in 0..PScale
        /\ ret.confidence_level \in Bands

(* C23, amended: every result of predict has a confidence in [0,1]; a      *)
(* result that reports probabilities has one of the four bands, and the    *)
(* sentinel and the error result have confidence 0 and the band "none".    *)
C23_BandsOfNormalAndNoneOfOthers ==
    (op = "predict" /\ raised = NoException) =>
        /\ ret.confidence \in 0..PScale
        /\ IF NormalResult(ret)
           THEN ret.confidence_level \in Bands
           ELSE /\ ret.pattern \in {"unanalyzable", "error"}
                /\ ret.confidence = 0
                /\ ret.confidence_level = "none"

(* an error result next to its band *)
C23_Witness ==
    /\ op = "predict"
    /\ raised = NoException
    /\ ret.pattern = "error"
    /\ ret.confidence_level = "none"

(* C26: in a normal result the confidence_level is the band the thresholds *)
(* 0.9 / 0.7 / 0.5 give to the confidence reported in the same result,     *)
(* the value rounded to three decimals.                                    *)
C26_BandMatchesReportedConfidence ==
    op = "predict:result" => ret.confidence_level = GetConfidenceLevel(ret.confidence)

(* C27: every label of the mapping preprocess_data returns is a non-empty  *)
(* string, also for a corpus with tags that consist of '#' only.           *)
C27_LabelsAreNonEmpty ==
    Preprocessed => \A l \in DOMAIN train.label_to_id : l # ""

(* the run has written the model into the output directory *)
ModelPersisted == tpc \in {"model saved", "tokenizer saved", "info saved", "done"}

(* C25: the model persisted at the end of training is the checkpoint with  *)
(* the best validation accuracy among the evaluation checkpoints of the    *)
(* run, or the final parameters if no checkpoint was evaluated, and the    *)
(* accuracy the final evaluation reports is the accuracy of that model.    *)
C25_BestCheckpointIsPersisted ==
    ModelPersisted =>
        LET cps == train.checkpoints
            acc(m) == Accuracy(m, train.val_counts)
        IN  /\ IF cps = <<>>
               THEN disk.model = train.last
               ELSE \E i \in 1..Len(cps) :
                        /\ disk.model = cps[i]
                        /\ \A j \in 1..Len(cps) : acc(cps[j]) <= acc(cps[i])
            /\ train.eval_accuracy = acc(disk.model)

(* a finished run of three checkpoints whose second was the best, and whose *)
(* final parameters are not the persisted ones                              *)
C25_Witness ==
    /\ tpc = "done"
    /\ Len(train.checkpoints) = 3
    /\ LET cps == train.checkpoints
           acc(m) == Accuracy(m, train.val_counts)
       IN  /\ acc(cps[2]) > acc(cps[1])
           /\ acc(cps[2]) > acc(cps[3])
           /\ disk.model = cps[2]
           /\ train.last # disk.model
           /\ acc(train.last) < train.eval_accuracy

(* the last step was a call of execute_trade that returned this value *)
TradeReturned(value) == op = "execute_trade" /\ ret = value

(* C28: after any sequence of buys and sells with quantity >= 1 and price  *)
(* >= 1 from the initial session state, cash is not negative and every     *)
(* stock in the portfolio has shares > 0, a position sold down to zero     *)
(* being removed; and a sell never removes more shares than are held.      *)
C28_CashAndSharesStayValid ==
    /\ [](/\ sstate["cash"] >= 0
          /\ \A s \in DOMAIN sstate["portfolio"] : sstate["portfolio"][s].shares > 0)
    /\ [][(op' = "execute_trade" /\ ret' = TRUE /\ arg'.action = "sell") =>
              /\ arg'.stock_name \in DOMAIN sstate["portfolio"]
              /\ arg'.quantity <= sstate["portfolio"][arg'.stock_name].shares
              /\ IF arg'.quantity = sstate["portfolio"][arg'.stock_name].shares
                 THEN arg'.stock_name \notin DOMAIN sstate'["portfolio"]
                 ELSE sstate'["portfolio"][arg'.stock_name].shares
                          = sstate["portfolio"][arg'.stock_name].shares - arg'.quantity]_vars

(* a position was sold down to nothing and is gone, while another is held *)
C28_Witness ==
    /\ TradeReturned(TRUE)
    /\ arg.action = "sell"
    /\ arg.stock_name \notin DOMAIN sstate["portfolio"]
    /\ DOMAIN sstate["portfolio"] # {}
    /\ sstate["cash"] < InitialCash

(* C29: a rejected trade changes nothing: when execute_trade returns False *)
(* cash, portfolio and history are as before; when it returns True exactly *)
(* one record is appended to history and cash changes by quantity * price, *)
(* down for a buy and up for a sell.                                       *)
C29_RejectedTradeChangesNothing ==
    [][op' = "execute_trade" =>
          LET total == arg'.quantity * arg'.price
              rejected ==
                  IF arg'.action = "buy" THEN sstate["cash"] < total
                  ELSE \/ arg'.stock_name \notin DOMAIN sstate["portfolio"]
                       \/ sstate["portfolio"][arg'.stock_name].shares < arg'.quantity
          IN  /\ ret' = ~rejected
              /\ IF ret' = FALSE
                 THEN sstate' = sstate
                 ELSE /\ Len(sstate'["history"]) = Len(sstate["history"]) + 1
                      /\ SubSeq(sstate'["history"], 1, Len(sstate["history"]))
                             = sstate["history"]
                      /\ sstate'["cash"] = IF arg'.action = "buy"
                                           THEN sstate["cash"] - total
                                           ELSE sstate["cash"] + total]_vars

(* a sell of more shares than are held was rejected after an accepted buy, *)
(* and a buy was rejected for lack of cash                                 *)
C29_Witness ==
    /\ TradeReturned(FALSE)
    /\ Len(sstate["history"]) >= 1
    /\ \/ /\ arg.action = "sell"
          /\ arg.stock_name \in DOMAIN sstate["portfolio"]
          /\ sstate["portfolio"][arg.stock_name].shares < arg.quantity
       \/ /\ arg.action = "buy"
          /\ sstate["cash"] < arg.quantity * arg.price

(* the keys under which the pages keep data of the logged-in user *)
PerUserKeys == LogoutKeys \cup {"ai_analysis_trade", "review_notes"}

(* C30: after a user switch or a logout from any page no per-user data of  *)
(* the previous user remains in the session state, and the coaching page   *)
(* never shows a user a trade that another user handed to it.              *)
C30_NoDataOfPreviousUserRemains ==
    /\ ~LoggedIn =>
           /\ PerUserKeys \cap DOMAIN sstate = {}
           /\ "onboarding_needed" \in DOMAIN sstate => sstate["onboarding_needed"] = NoUser
    /\ page = "coaching" => ret.trade.owner \in {NoUser, ret.viewer}
====
